---- MODULE Spec2Model ----
(***************************************************************************)
(* A model of the node-hill-s game server: the session teardown path of    *)
(* Game/Player, the throttled position update of Player, the proximity     *)
(* (touch) detector of Brick, and destroy() of Brick and SoundEmitter.     *)
(*                                                                         *)
(* JavaScript runs one callback at a time: an action is one synchronous    *)
(* run of a handler.  An async method whose continuation after an await    *)
(* still assigns fields is split at that await (destroy, respawn).         *)
(***************************************************************************)
EXTENDS Integers, Sequences, FiniteSets, TLC

\* ---------------------------------------------------------------- bounds
\* Largest value of the clock (ms) the position model explores.
MaxNow == 150
\* Number of Game._playerLeft calls explored.
MaxLeaveCalls == 2
\* Intervals one entity registers through setInterval.
MaxSteps == 1
\* Listeners of one kind registered on one emitter.
MaxListeners == 1
\* destroy() calls issued on one entity.
MaxDestroyCalls == 2
\* Entries of Game.world.bricks and of Game.world.sounds.
MaxWorld == 2

\* The longest list of bricks handed to serialize.
MaxBricks == 2

\* The most fields of a serialized brick that differ from a new Brick's.
MaxChanged == 2

\* The most lines of a map file that are chosen freely.
MaxLines == 2

\* The most termination signals the process is sent.
MaxSignals == 2

\* The most frames of a byte stream, and the longest payload of a frame.
MaxFrames == 2
MaxPayload == 2
\* The longest location, in path segments, a script hands to Game.loadBrk.
MaxSegments == 3
\* The most clicked() subscriptions on one brick.
MaxClickSubs == 2
\* Creation data of one brick received by one session is counted up to this.
MaxCreated == 2
\* The most avatarLoaded() calls on one player.
MaxPromises == 2

\* ------------------------------------------------------- program constants
\* Player._updatePositionForOthers: the throttle window in ms.
ThrottleMs == 50
\* Player.maxHealth as set by the constructor.
MaxHealth == 100
\* Brick.clickDistance and the default of setClickable's second parameter
ClickDistance == 50

\* ---------------------------------------------------------------- universe
Players == {"p1", "p2"}
Bricks == {"b1", "b2"}
Sounds == {"s1"}
Teams == {"red"}
Tools == {"tool1", "tool2"}
Bots == {"bot1"}
NoOne == "none"

\* Vector3 values the scripts and the spawn picker hand to setPosition.
Positions == {<<0, 0, 0>>, <<3, 0, 0>>}
\* The positions and scales a script gives a brick.
BrickVectors == {<<2, 1, 1>>}
\* [x, y, z, yaw, camera pitch] arrays a client sends as a position update.
PosInputs ==
    { <<1, 1, 1, 1, 1>>, <<2, 1, 1, 2, 1>>, <<1, 1, 1, 1, 2>>,
      <<0, 1, 1, 1, 1>>, <<1, 1, 1, 0, 0>>, <<0, 0, 0, 0, 0>> }
\* Milliseconds that may pass between two events.
Deltas == {20, 30, 50}
\* The session whose position updates and local bricks are explored.
Movers == {"p1"}

VARIABLES
    now,            \* Date.now()
    game,           \* Game's settings and Game.world.teams, tools and bots
    lastCast,       \* per player: the time of its latest position broadcast, if any
    players,        \* Game.players
    player,         \* the fields of each Player object
    timers,         \* the live intervals made by setInterval: <<owner, index>>
    leaveCalls,     \* how many times Game._playerLeft has been called
    leaveEmits,     \* per player: playerLeave notifications emitted so far
    removePkts,     \* per player: RemovePlayer broadcasts made so far
    brick,          \* the fields of each Brick object
    sound,          \* the fields of each SoundEmitter object
    worldBricks,    \* Game.world.bricks
    worldSounds,    \* Game.world.sounds
    localBricks,    \* per player: Player.localBricks
    dcall,          \* per entity and call: where that destroy() call stands
    destroyPkts,    \* per entity: destroy packets handed to the packet builder
    ev              \* the events and packets of the last handler run, for the
                    \* handlers whose outputs the properties read

vars ==
    << now, game, lastCast, players, player, timers, leaveCalls, leaveEmits, removePkts, brick,
       sound, worldBricks, worldSounds, localBricks, dcall, destroyPkts, ev >>

\* ----------------------------------------------------------------- helpers
Range(s) == { s[i] : i \in 1..Len(s) }

\* Array.prototype.indexOf: the 0-based index of the first occurrence, or -1.
IndexOf(s, x) ==
    IF x \in Range(s)
    THEN (CHOOSE i \in 1..Len(s) : s[i] = x /\ \A j \in 1..(i - 1) : s[j] # x) - 1
    ELSE -1

\* Array.prototype.splice(start, 1): a negative start counts from the end of
\* the array, so splice(-1, 1) removes the last element.
SpliceOne(s, start) ==
    LET from == IF start < 0 THEN (IF Len(s) + start < 0 THEN 0 ELSE Len(s) + start)
                ELSE (IF start > Len(s) THEN Len(s) ELSE start)
    IN  IF from >= Len(s) THEN s
        ELSE [ j \in 1..(Len(s) - 1) |-> IF j <= from THEN s[j] ELSE s[j + 1] ]

Abs(n) == IF n < 0 THEN -n ELSE n

\* What one handler run did.  emits: <<emitter, event, subject>>;
\* pkts: <<kind, subject, ids, recipients>>.
Ev(op, who, arg, result, emits, pkts) ==
    [ op |-> op, who |-> who, arg |-> arg, result |-> result, emits |-> emits, pkts |-> pkts ]

\* After a handler whose events and packets are not recorded.
Quiet == Ev("quiet", NoOne, <<>>, "ok", {}, {})

\* ----------------------------------------------------- packet addressing
\* PacketBuilder.send(socket): the one connection.
SendTo(p) == {p}
\* PacketBuilder.broadcast(): every session of Game.players.
Broadcast == Range(players)
\* PacketBuilder.broadcastExcept(list).
BroadcastExcept(excluded) == Range(players) \ excluded

\* A player record after the creation data of the bricks of a list has
\* reached its session: created counts, per brick, the times it has.
Created(pl, bs) ==
    [ pl EXCEPT !.created =
        [ b \in Bricks |->
            LET n == @[b] + Cardinality({ i \in DOMAIN bs : bs[i] = b })
            IN  IF n > MaxCreated THEN MaxCreated ELSE n ] ]

\* The player records after a brick packet for the list has been sent to
\* the receivers.  What the sessions have received is recorded in the
\* specifications that start with recording on.
SendBricks(receivers, bs) ==
    [ p \in Players |->
        IF game.recording /\ p \in receivers THEN Created(player[p], bs) ELSE player[p] ]

\* ------------------------------------------------------------------- Init
\* new Player(socket)
NewPlayerObject ==
    [ authenticated |-> FALSE, destroyed |-> FALSE, alive |-> FALSE,
      position |-> <<0, 0, 0>>, scale |-> <<1, 1, 1>>,
      rotX |-> 0, rotZ |-> 0, camRotX |-> 0,
      health |-> MaxHealth, steps |-> 0, listeners |-> 0,
      positionDeltaTime |-> 0, joinPc |-> "new",
      loadAvatar |-> TRUE, avatar |-> "none", avatarLoadedEmits |-> 0, joinLog |-> <<>>,
      team |-> NoOne, inventory |-> <<>>, toolEquipped |-> NoOne,
      blockedUsers |-> {}, speech |-> "", maxHealth |-> MaxHealth,
      equipping |-> {}, created |-> [ b \in Bricks |-> 0 ],
      avatarPromises |-> [ waiting |-> 0, pending |-> 0, resolved |-> 0, rejected |-> 0 ] ]

\* new Game(): the settings' defaults and an empty world.
NewGameObject ==
    [ sendBricks |-> TRUE, assignRandomTeam |-> TRUE, playerSpawning |-> TRUE,
      teams |-> <<>>, tools |-> <<>>, bots |-> <<>>, spawns |-> <<>>,
      mapDirectory |-> {}, recording |-> FALSE,
      closing |-> [ bound |-> FALSE, ended |-> FALSE, invoked |-> 0, pending |-> 0,
                    exited |-> FALSE ],
      ids |-> [ brickId |-> 0, soundEmitterId |-> 0, playerId |-> 0,
                netId |-> [ e \in Bricks \cup Sounds \cup Players |-> {} ],
                issued |-> {} ] ]

\* new Brick(): a unit brick at the origin.  made is FALSE for a Brick object
\* that Player.newBrick has not cloned yet.
NewBrickObject(isMade) ==
    [ made |-> isMade, destroyed |-> FALSE, socket |-> NoOne,
      position |-> <<0, 0, 0>>, scale |-> <<1, 1, 1>>,
      hooks |-> TRUE, touchL |-> 0, endedL |-> 0,
      clickable |-> FALSE, clickDistance |-> ClickDistance, clickL |-> 0, clickGone |-> 0,
      hitTimers |-> 0, hitMonitor |-> FALSE, hitMonitorActive |-> FALSE,
      playersTouching |-> {}, steps |-> 0 ]

\* new SoundEmitter(sound)
NewSoundObject ==
    [ destroyed |-> FALSE, listeners |-> 0, steps |-> 0 ]

Init ==
    /\ now = 0
    /\ game = NewGameObject
    /\ lastCast = [ p \in Players |-> {} ]
    /\ players = <<>>
    /\ player = [ p \in Players |-> NewPlayerObject ]
    /\ timers = {}
    /\ leaveCalls = 0
    /\ leaveEmits = [ p \in Players |-> 0 ]
    /\ removePkts = [ p \in Players |-> 0 ]
    /\ brick = [ b \in Bricks |-> NewBrickObject(b = "b1") ]
    /\ sound = [ s \in Sounds |-> NewSoundObject ]
    /\ worldBricks = <<>>
    /\ worldSounds = <<>>
    /\ localBricks = [ p \in Players |-> <<>> ]
    /\ dcall = [ e \in Bricks \cup Sounds |-> [ c \in 1..MaxDestroyCalls |-> "idle" ] ]
    /\ destroyPkts = [ e \in Bricks \cup Sounds |-> 0 ]
    /\ ev = Ev("init", NoOne, <<>>, "ok", {}, {})

\* The variables each part of the model leaves alone.
SessionUnchanged == UNCHANGED << brick, sound, worldBricks, worldSounds, localBricks, dcall, destroyPkts >>
LeaveUnchanged == UNCHANGED << leaveCalls, leaveEmits, removePkts >>
WorldUnchanged == UNCHANGED << sound, worldBricks, worldSounds, dcall, destroyPkts >>

\* ------------------------------------------------------------ Game, Player
\* The intervals an entity registered through its setInterval (its _steps).
StepsOf(owner) == { t \in timers : t[1] = owner }

\* Player._removePlayer: RemovePlayer, broadcast to everyone but the player.
_removePlayer(p) == <<"RemovePlayer", p, "", BroadcastExcept({p})>>

\* Player._log(message, true): a server message to every session.
_log(p, message) == <<"Message", p, message, Broadcast>>

\* Player._left without its interval loop: a teardown that leaks the timers.
LeftLeakingIntervals(p) ==
    /\ player' = [ player EXCEPT ![p].destroyed = TRUE, ![p].listeners = 0 ]
    /\ timers' = timers
    /\ removePkts' = [ removePkts EXCEPT ![p] = @ + 1 ]

\* Player._left: destroyed, removeAllListeners, clearInterval of every step,
\* and the RemovePlayer broadcast.  Nothing is assigned after its await.
_left(p) ==
    /\ player' = [ player EXCEPT ![p].destroyed = TRUE, ![p].listeners = 0,
                                 ![p].avatarPromises.waiting = 0 ]
    /\ timers' = timers \ StepsOf(p)
    /\ removePkts' = [ removePkts EXCEPT ![p] = @ + 1 ]

\* Game._newPlayer up to its await of p._joined(): called once per player,
\* after authentication.  playerJoin hands the Player object to the scripts.
_newPlayer(p) ==
    /\ player[p].joinPc = "new"
    /\ player' = [ player EXCEPT ![p].authenticated = TRUE, ![p].joinPc = "joining",
                                 ![p].joinLog = <<"playerJoin">> ]
    /\ players' = Append(players, p)
    /\ ev' = Quiet
    /\ UNCHANGED << now, game, lastCast, timers >>
    /\ LeaveUnchanged
    /\ SessionUnchanged

\* Player.addTool on an inventory: pushed unless it is there already.
AddTool(inventory, tool) ==
    IF IndexOf(inventory, tool) # -1 THEN inventory ELSE Append(inventory, tool)

\* Player._createTools: addTool of every tool of Game.world.tools, in order.
RECURSIVE _createTools(_, _)
_createTools(inventory, tools) ==
    IF tools = <<>> THEN inventory
    ELSE _createTools(AddTool(inventory, Head(tools)), Tail(tools))

\* A join sequence that syncs the figures before it spawns the player.
JoinStepsFiguresFirst(p) ==
    <<"sendAuthInfo", "_getClients", "_greet", "setEnvironment">>
        \o (IF game.sendBricks THEN <<"loadBricks">> ELSE <<>>)
        \o <<"loadSounds", "_createTeams", "_createTools", "_createBots">>
        \o (IF game.assignRandomTeam /\ Len(game.teams) > 0 THEN <<"setTeam">> ELSE <<>>)
        \o <<"_createFigures">>
        \o (IF game.playerSpawning THEN <<"respawn">> ELSE <<>>)
        \o (IF player[p].loadAvatar THEN <<"setAvatar">> ELSE <<>>)
        \o <<"mouseclick", "restartTimer", "initialSpawn">>

\* The steps Player._joined initiates, in the order of its statements.
JoinSteps(p) ==
    <<"sendAuthInfo", "_getClients", "_greet", "setEnvironment">>
        \o (IF game.sendBricks THEN <<"loadBricks">> ELSE <<>>)
        \o <<"loadSounds", "_createTeams", "_createTools", "_createBots">>
        \o (IF game.assignRandomTeam /\ Len(game.teams) > 0 THEN <<"setTeam">> ELSE <<>>)
        \o (IF game.playerSpawning THEN <<"respawn">> ELSE <<>>)
        \o <<"_createFigures">>
        \o (IF player[p].loadAvatar THEN <<"setAvatar">> ELSE <<>>)
        \o <<"mouseclick", "restartTimer", "initialSpawn">>

\* Player._joined and the rest of Game._newPlayer: the world's tools are
\* added, a random team is set, respawn() moves the player to a spawn and
\* makes it alive, the avatar load is started and not awaited, the mouseclick
\* listener is registered, initialSpawn is emitted on the player and then on
\* Game.  (The states between respawn's setPosition and its alive = true are
\* those that setPosition alone reaches.)
_joined(p) ==
    /\ player[p].joinPc = "joining"
    /\ \E spawn \in Positions, team \in Range(game.teams) \cup {NoOne} :
        /\ team = NoOne <=> ~(game.assignRandomTeam /\ Len(game.teams) > 0)
        /\ ~game.playerSpawning => spawn = player[p].position
        /\ player' = [ player EXCEPT
                ![p].created = IF game.sendBricks THEN SendBricks(SendTo(p), worldBricks)[p].created
                               ELSE @,
                ![p].inventory = _createTools(@, game.tools),
                ![p].team = IF team = NoOne THEN @ ELSE team,
                ![p].position = spawn,
                ![p].alive = IF game.playerSpawning THEN TRUE ELSE @,
                ![p].health = IF game.playerSpawning THEN MaxHealth ELSE @,
                ![p].toolEquipped = IF game.playerSpawning THEN NoOne ELSE @,
                ![p].avatar = IF player[p].loadAvatar THEN "loading" ELSE @,
                ![p].listeners = @ + 1,
                ![p].joinLog = @ \o JoinSteps(p) \o <<"Game.initialSpawn">>,
                ![p].joinPc = "joined" ]
        /\ ev' = Ev("_joined", p, <<>>, "ok", {}, {})
    /\ UNCHANGED << now, game, lastCast, players, timers >>
    /\ LeaveUnchanged
    /\ SessionUnchanged

\* Game._playerLeft: the disconnect path, called on socket close, kick or
\* idle timeout.
_playerLeft(p) ==
    /\ leaveCalls < MaxLeaveCalls
    /\ leaveCalls' = leaveCalls + 1
    /\ IF player[p].authenticated
       THEN /\ players' = SpliceOne(players, IndexOf(players, p))
            /\ leaveEmits' = [ leaveEmits EXCEPT ![p] = @ + 1 ]
            /\ _left(p)
            /\ ev' = Ev("_playerLeft", p, <<>>, "ok", {<<"Game", "playerLeave", p>>},
                        {_log(p, "left")', _removePlayer(p)'})
       ELSE /\ UNCHANGED << players, player, timers, leaveEmits, removePkts >>
            /\ ev' = Ev("_playerLeft", p, <<>>, "ok", {}, {})
    /\ UNCHANGED << now, game, lastCast >>
    /\ SessionUnchanged

\* The scripts hold a Player object from playerJoin on, and keep it after the
\* player has left.
Scripted(p) == player[p].joinPc # "new"

\* Player.setInterval
PlayerSetInterval(p) ==
    /\ Scripted(p)
    /\ player[p].steps < MaxSteps
    /\ player' = [ player EXCEPT ![p].steps = @ + 1 ]
    /\ timers' = timers \cup {<<p, player[p].steps + 1>>}
    /\ ev' = Quiet
    /\ UNCHANGED << now, game, lastCast, players >>
    /\ LeaveUnchanged
    /\ SessionUnchanged

\* Player.mouseclick / keypress / keyPressed / keyReleased: this.on(...)
PlayerOn(p) ==
    /\ Scripted(p)
    /\ player[p].listeners < MaxListeners
    /\ player' = [ player EXCEPT ![p].listeners = @ + 1 ]
    /\ ev' = Quiet
    /\ UNCHANGED << now, game, lastCast, players, timers >>
    /\ LeaveUnchanged
    /\ SessionUnchanged

\* Player.setPosition
PlayerSetPosition(p, v) ==
    /\ Scripted(p)
    /\ player' = [ player EXCEPT ![p].position = v ]
    /\ ev' = Quiet
    /\ UNCHANGED << now, game, lastCast, players, timers >>
    /\ LeaveUnchanged
    /\ SessionUnchanged

\* Player.kill
PlayerKill(p) ==
    /\ Scripted(p)
    /\ IF ~player[p].alive
       THEN UNCHANGED player
       ELSE player' = [ player EXCEPT ![p].alive = FALSE, ![p].health = 0 ]
    /\ ev' = Quiet
    /\ UNCHANGED << now, game, lastCast, players, timers >>
    /\ LeaveUnchanged
    /\ SessionUnchanged

\* Player.respawn: the spawn is spawnPosition, the spawnHandler's answer or
\* scripts.pickSpawn(); setPosition, then alive and health, and no tool
\* equipped.
PlayerRespawn(p) ==
    /\ Scripted(p)
    /\ \E spawn \in Positions :
        /\ player' = [ player EXCEPT ![p].position = spawn, ![p].alive = TRUE,
                                     ![p].health = player[p].maxHealth,
                                     ![p].toolEquipped = NoOne ]
        /\ ev' = Quiet
    /\ UNCHANGED << now, game, lastCast, players, timers >>
    /\ LeaveUnchanged
    /\ SessionUnchanged

\* The session lifecycle and the operations scripts perform on a session.
NextSession ==
    \/ \E p \in Players : _newPlayer(p)
    \/ \E p \in Players : _joined(p)
    \/ \E p \in Players : _playerLeft(p)
    \/ \E p \in Players : PlayerSetInterval(p)
    \/ \E p \in Players : PlayerOn(p)
    \/ \E p \in Players : PlayerKill(p)

SpecSession == Init /\ [][NextSession]_vars

\* ------------------------------------------------------------------ Brick
TOUCH_EVENTS == {"touching", "touchingEnded"}

\* Brick._detectTouching: setInterval of the scan, kept in _hitMonitor.
_detectTouching(br) == [ br EXCEPT !.hitTimers = @ + 1, !.hitMonitor = TRUE ]

\* clearInterval(this._hitMonitor): stops the interval _hitMonitor refers to.
ClearHitMonitor(br) ==
    IF br.hitMonitor THEN [ br EXCEPT !.hitTimers = @ - 1, !.hitMonitor = FALSE ] ELSE br

\* The constructor's "newListener" listener, run before a listener is added.
NewListenerHook(br, event) ==
    IF br.hooks /\ event \in TOUCH_EVENTS /\ ~br.hitMonitorActive
    THEN [ _detectTouching(br) EXCEPT !.hitMonitorActive = TRUE ]
    ELSE br

\* The constructor's "removeListener" listener, run after a listener is removed.
RemoveListenerHook(br, event) ==
    IF br.hooks /\ event = "touching" /\ br.touchL = 0
    THEN [ ClearHitMonitor(br) EXCEPT !.hitMonitorActive = FALSE ]
    ELSE br

\* A separation test that lets boxes at exactly close + 0.4 touch.
TouchedBoxInclusive(bp, bs, pp, ps) ==
    LET scale20(i) == bs[i]
        origin20(i) == 2 * bp[i] + scale20(i)
        size20(i) == IF i = 3 THEN 5 * ps[3] ELSE 2 * ps[i]
        center20(i) == IF i = 3 THEN 2 * pp[3] + size20(3) ELSE 2 * pp[i]
    IN  \A i \in 1..3 : ~(Abs(origin20(i) - center20(i)) > size20(i) + scale20(i) + 8)

\* The separation test of Brick._hitDetection for a brick at bp of scale bs
\* and a player at pp of scale ps, all given in tenths of a unit and computed
\* in twentieths: touched unless on some axis dist >= close + 0.4.
TouchedBox(bp, bs, pp, ps) ==
    LET scale20(i) == bs[i]
        origin20(i) == 2 * bp[i] + scale20(i)
        size20(i) == IF i = 3 THEN 5 * ps[3] ELSE 2 * ps[i]
        center20(i) == IF i = 3 THEN 2 * pp[3] + size20(3) ELSE 2 * pp[i]
    IN  \A i \in 1..3 : ~(Abs(origin20(i) - center20(i)) >= size20(i) + scale20(i) + 8)

Tenths(v) == << 10 * v[1], 10 * v[2], 10 * v[3] >>

\* The separation test for brick b and player p.
Touched(b, p) ==
    TouchedBox(Tenths(brick[b].position), Tenths(brick[b].scale),
               Tenths(player[p].position), Tenths(player[p].scale))

\* The players one scan of the brick iterates over: the bound player of a
\* local brick, Game.players otherwise; none when Game.players is empty.
Examined(b) ==
    IF Len(players) = 0 THEN {}
    ELSE IF brick[b].socket # NoOne THEN {brick[b].socket}
    ELSE Range(players)

\* A scan that reports "touching" only for a player entering the set.
HitDetectionOnEntry(b, touching) ==
    LET hit == { p \in Examined(b) : Touched(b, p) /\ player[p].alive }
        ended == { p \in Examined(b) \cap touching : ~(Touched(b, p) /\ player[p].alive) }
    IN  [ touching |-> (touching \cup hit) \ ended,
          emits |-> { <<b, "touching", p>> : p \in hit \ touching }
                    \cup { <<b, "touchingEnded", p>> : p \in ended } ]

\* A scan that reports "touchingEnded" without looking at the touching-set.
HitDetectionEndedForAll(b, touching) ==
    LET hit == { p \in Examined(b) : Touched(b, p) /\ player[p].alive }
        ended == { p \in Examined(b) : ~(Touched(b, p) /\ player[p].alive) }
    IN  [ touching |-> (touching \cup hit) \ ended,
          emits |-> { <<b, "touching", p>> : p \in hit }
                    \cup { <<b, "touchingEnded", p>> : p \in ended } ]

\* Brick._hitDetection on the touching-set it is given: the new set and the
\* events emitted.  Each player is handled on its own, in list order.
_hitDetection(b, touching) ==
    LET hit == { p \in Examined(b) : Touched(b, p) /\ player[p].alive }
        ended == { p \in Examined(b) \cap touching : ~(Touched(b, p) /\ player[p].alive) }
    IN  [ touching |-> (touching \cup hit) \ ended,
          emits |-> { <<b, "touching", p>> : p \in hit }
                    \cup { <<b, "touchingEnded", p>> : p \in ended } ]

\* A scan that keeps destroyed players in the touching-set.
PruneNothing(touching) == touching

\* The scan's first loop: destroyed players are deleted from the set.
PruneDestroyed(touching) == { p \in touching : ~player[p].destroyed }

\* The interval callback of Brick._detectTouching: one scan.
Scan(b) ==
    /\ brick[b].hitTimers > 0
    /\ LET before == brick[b].playersTouching
           pruned == PruneDestroyed(before)
           result == _hitDetection(b, pruned)
       IN  IF Len(players) = 0
           THEN /\ brick' = [ brick EXCEPT ![b].playersTouching = pruned ]
                /\ ev' = Ev("scan", b, <<before>>, "ok", {}, {})
           ELSE /\ brick' = [ brick EXCEPT ![b].playersTouching = result.touching ]
                /\ ev' = Ev("scan", b, <<before>>, "ok", result.emits, {})
    /\ UNCHANGED << now, game, lastCast, players, player, timers, localBricks >>
    /\ LeaveUnchanged
    /\ WorldUnchanged

\* Brick.touching(callback): this.on("touching", ...)
BrickTouching(b) ==
    /\ brick[b].made
    /\ brick[b].touchL < MaxListeners
    /\ brick' = [ brick EXCEPT ![b] = [ NewListenerHook(@, "touching") EXCEPT !.touchL = @ + 1 ] ]
    /\ ev' = Quiet
    /\ UNCHANGED << now, game, lastCast, players, player, timers, localBricks >>
    /\ LeaveUnchanged
    /\ WorldUnchanged

\* disconnect() of a touching() handle: this.off("touching", ...)
BrickTouchingDisconnect(b) ==
    /\ brick[b].touchL > 0
    /\ brick' = [ brick EXCEPT ![b] = RemoveListenerHook([ @ EXCEPT !.touchL = @ - 1 ], "touching") ]
    /\ ev' = Quiet
    /\ UNCHANGED << now, game, lastCast, players, player, timers, localBricks >>
    /\ LeaveUnchanged
    /\ WorldUnchanged

\* Player.newBrick(brick): a clone of the brick bound to the player's socket.
PlayerNewBrick(p) ==
    /\ Scripted(p)
    /\ \E b \in Bricks :
        /\ ~brick[b].made
        /\ brick' = [ brick EXCEPT ![b].made = TRUE, ![b].socket = p ]
        /\ localBricks' = [ localBricks EXCEPT ![p] = Append(@, b) ]
        /\ ev' = Quiet
    /\ UNCHANGED << now, game, lastCast, players, player, timers >>
    /\ LeaveUnchanged
    /\ WorldUnchanged

\* The proximity detector with the sessions it scans.
NextTouch ==
    \/ \E p \in Players : _newPlayer(p)
    \/ \E p \in Players : _joined(p)
    \/ \E p \in Players : _playerLeft(p)
    \/ \E p \in Players, v \in Positions : PlayerSetPosition(p, v)
    \/ \E p \in Players : PlayerKill(p)
    \/ \E p \in Players : PlayerRespawn(p)
    \/ \E p \in Players : PlayerNewBrick(p)
    \/ \E b \in Bricks : BrickTouching(b)
    \/ \E b \in Bricks : BrickTouchingDisconnect(b)
    \/ \E b \in Bricks : Scan(b)

SpecTouch == Init /\ [][NextTouch]_vars

\* --------------------------------------------------------- position sync
\* Time passes between two handler runs.
Tick(d) ==
    /\ now + d <= MaxNow
    /\ now' = now + d
    /\ UNCHANGED << game, lastCast, players, player, timers, localBricks, brick, ev >>
    /\ LeaveUnchanged
    /\ WorldUnchanged

\* JavaScript truthiness of a number.
Truthy(n) == n # 0

\* The fields a position update compares and stores: x, y, z, rotation.z
\* and cameraRotation.x.
Stored(pl) == << pl.position[1], pl.position[2], pl.position[3], pl.rotZ, pl.camRotX >>

\* A throttle that lets every update through.
ThrottledNever(p) == FALSE

\* if (Date.now() - this._positionDeltaTime < 50) return
Throttled(p) == now - player[p].positionDeltaTime < ThrottleMs

\* Player._updatePositionForOthers(pos), called for a position packet of an
\* authenticated, connected session.
_updatePositionForOthers(p, pos) ==
    /\ player[p].authenticated
    /\ ~player[p].destroyed
    /\ LET pl == player[p]
           a == Truthy(pos[1]) /\ pl.position[1] # pos[1]
           b == Truthy(pos[2]) /\ pl.position[2] # pos[2]
           c == Truthy(pos[3]) /\ pl.position[3] # pos[3]
           f == Truthy(pos[4]) /\ pl.rotZ # pos[4]
           cam == Truthy(pos[5]) /\ pl.rotX # pos[5]
           idBuffer == (IF a THEN "A" ELSE "") \o (IF b THEN "B" ELSE "")
                           \o (IF c THEN "C" ELSE "") \o (IF f THEN "F" ELSE "")
           position == << IF a THEN pos[1] ELSE pl.position[1],
                          IF b THEN pos[2] ELSE pl.position[2],
                          IF c THEN pos[3] ELSE pl.position[3] >>
       IN  IF Throttled(p)
           THEN /\ UNCHANGED << player, lastCast >>
                /\ ev' = Ev("_updatePositionForOthers", p, <<pos, Stored(pl)>>, "dropped", {}, {})
           ELSE /\ player' = [ player EXCEPT ![p].positionDeltaTime = now,
                                             ![p].position = position,
                                             ![p].rotZ = IF f THEN pos[4] ELSE @,
                                             ![p].camRotX = IF cam THEN pos[5] ELSE @ ]
                /\ IF idBuffer # ""
                   THEN /\ lastCast' = [ lastCast EXCEPT ![p] = {now} ]
                        /\ ev' = Ev("_updatePositionForOthers", p, <<pos, Stored(pl)>>, "accepted",
                                    {<<p, "moved", p>>},
                                    {<<"Figure", p, idBuffer, BroadcastExcept({p})>>})
                   ELSE /\ UNCHANGED lastCast
                        /\ ev' = Ev("_updatePositionForOthers", p, <<pos, Stored(pl)>>, "accepted", {}, {})
    /\ UNCHANGED << now, game, players, timers >>
    /\ LeaveUnchanged
    /\ SessionUnchanged

NextPos ==
    \/ \E d \in Deltas : Tick(d)
    \/ \E p \in Players : _newPlayer(p)
    \/ \E p \in Players : _joined(p)
    \/ \E p \in Movers, pos \in PosInputs : _updatePositionForOthers(p, pos)

SpecPos == Init /\ [][NextPos]_vars

\* ---------------------------------------------------------------- destroy
\* A brick packet that is broadcast whatever the brick is bound to.
CreateBrickPacketBroadcast(b, modification) == <<"Brick", b, modification, Broadcast>>

\* createBrickIdBuffer(brick, modification): the packet goes to the socket a
\* local brick is bound to, and to every session otherwise.
createBrickPacket(b, modification) ==
    <<"Brick", b, modification,
      IF brick[b].socket # NoOne THEN SendTo(brick[b].socket) ELSE Broadcast>>

\* Game.newBrick(brick): pushed whether or not the brick is in the world,
\* and its creation data broadcast.
GameNewBrick(b) ==
    /\ brick[b].made /\ brick[b].socket = NoOne
    /\ Len(worldBricks) < MaxWorld
    /\ worldBricks' = Append(worldBricks, b)
    /\ player' = SendBricks(Broadcast, << b >>)
    /\ ev' = Quiet
    /\ UNCHANGED << now, game, lastCast, players, timers, localBricks, brick >>
    /\ UNCHANGED << sound, worldSounds, dcall, destroyPkts >>
    /\ LeaveUnchanged

\* Game.newSoundEmitter(sound): pushed whether or not it is in the world.
GameNewSoundEmitter(s) ==
    /\ Len(worldSounds) < MaxWorld
    /\ worldSounds' = Append(worldSounds, s)
    /\ ev' = Quiet
    /\ UNCHANGED << now, game, lastCast, players, player, timers, localBricks, brick >>
    /\ UNCHANGED << sound, worldBricks, dcall, destroyPkts >>
    /\ LeaveUnchanged

\* Brick.setInterval(callback, delay)
BrickSetInterval(b) ==
    /\ brick[b].made
    /\ brick[b].steps < MaxSteps
    /\ brick' = [ brick EXCEPT ![b].steps = @ + 1 ]
    /\ timers' = timers \cup {<<b, brick[b].steps + 1>>}
    /\ ev' = Quiet
    /\ UNCHANGED << now, game, lastCast, players, player, localBricks >>
    /\ LeaveUnchanged
    /\ WorldUnchanged

\* SoundEmitter.setInterval(callback, delay)
SoundSetInterval(s) ==
    /\ sound[s].steps < MaxSteps
    /\ sound' = [ sound EXCEPT ![s].steps = @ + 1 ]
    /\ timers' = timers \cup {<<s, sound[s].steps + 1>>}
    /\ ev' = Quiet
    /\ UNCHANGED << now, game, lastCast, players, player, localBricks, brick >>
    /\ UNCHANGED << worldBricks, worldSounds, dcall, destroyPkts >>
    /\ LeaveUnchanged

\* Brick._cleanup on the brick's fields: the scan interval is cleared and
\* removeAllListeners() runs the "removeListener" listener for the listeners
\* it removes before it removes that listener too.
_cleanup(br) ==
    LET cleared == ClearHitMonitor(br)
        unhooked == IF br.touchL > 0
                    THEN RemoveListenerHook([ cleared EXCEPT !.touchL = 0 ], "touching")
                    ELSE cleared
    IN  [ unhooked EXCEPT !.hooks = FALSE, !.touchL = 0, !.endedL = 0,
                          !.clickGone = @ + unhooked.clickL, !.clickL = 0 ]

\* array.splice(array.indexOf(x), 1) under "if (index !== -1)".
RemoveFrom(list, x) == IF IndexOf(list, x) # -1 THEN SpliceOne(list, IndexOf(list, x)) ELSE list

\* The c-th destroy() call on an entity may start once the calls before it have.
MayCall(e, c) == dcall[e][c] = "idle" /\ \A k \in 1..(c - 1) : dcall[e][k] # "idle"

\* Brick.destroy() up to "await createBrickPacket(this, "destroy")".
BrickDestroyBegin(b, c) ==
    /\ brick[b].made
    /\ MayCall(b, c)
    /\ IF brick[b].destroyed
       THEN /\ dcall' = [ dcall EXCEPT ![b][c] = "rejected" ]
            /\ UNCHANGED << brick, timers, worldBricks, localBricks, destroyPkts >>
       ELSE /\ dcall' = [ dcall EXCEPT ![b][c] = "awaiting" ]
            /\ brick' = [ brick EXCEPT ![b] = _cleanup(@) ]
            /\ timers' = timers \ StepsOf(b)
            /\ IF brick[b].socket = NoOne
               THEN /\ worldBricks' = RemoveFrom(worldBricks, b)
                    /\ UNCHANGED localBricks
               ELSE /\ localBricks' = [ localBricks EXCEPT ![brick[b].socket] = RemoveFrom(@, b) ]
                    /\ UNCHANGED worldBricks
            /\ destroyPkts' = [ destroyPkts EXCEPT ![b] = @ + 1 ]
    /\ ev' = IF brick[b].destroyed
             THEN Ev("Brick.destroy", b, <<"destroy">>, "rejected", {}, {})
             ELSE Ev("Brick.destroy", b, <<"destroy">>, "ok", {}, {createBrickPacket(b, "destroy")})
    /\ UNCHANGED << now, game, lastCast, players, player, sound, worldSounds >>
    /\ LeaveUnchanged

\* Brick.destroy() after the await.
BrickDestroyEnd(b, c) ==
    /\ dcall[b][c] = "awaiting"
    /\ dcall' = [ dcall EXCEPT ![b][c] = "resolved" ]
    /\ brick' = [ brick EXCEPT ![b].socket = NoOne, ![b].playersTouching = {},
                               ![b].destroyed = TRUE ]
    /\ game' = [ game EXCEPT !.ids.netId[b] = {} ]
    /\ ev' = Quiet
    /\ UNCHANGED << now, lastCast, players, player, timers, localBricks >>
    /\ UNCHANGED << sound, worldBricks, worldSounds, destroyPkts >>
    /\ LeaveUnchanged

\* SoundEmitter.destroy() up to "await createSoundPacket(this, "destroy")".
SoundDestroyBegin(s, c) ==
    /\ MayCall(s, c)
    /\ IF sound[s].destroyed
       THEN /\ dcall' = [ dcall EXCEPT ![s][c] = "rejected" ]
            /\ UNCHANGED << sound, timers, worldSounds, destroyPkts >>
       ELSE /\ dcall' = [ dcall EXCEPT ![s][c] = "awaiting" ]
            /\ sound' = [ sound EXCEPT ![s].listeners = 0 ]
            /\ timers' = timers \ StepsOf(s)
            /\ worldSounds' = RemoveFrom(worldSounds, s)
            /\ destroyPkts' = [ destroyPkts EXCEPT ![s] = @ + 1 ]
    /\ ev' = Quiet
    /\ UNCHANGED << now, game, lastCast, players, player, localBricks, brick, worldBricks >>
    /\ LeaveUnchanged

\* SoundEmitter.destroy() after the await.
SoundDestroyEnd(s, c) ==
    /\ dcall[s][c] = "awaiting"
    /\ dcall' = [ dcall EXCEPT ![s][c] = "resolved" ]
    /\ sound' = [ sound EXCEPT ![s].destroyed = TRUE ]
    /\ game' = [ game EXCEPT !.ids.netId[s] = {} ]
    /\ ev' = Quiet
    /\ UNCHANGED << now, lastCast, players, player, timers, localBricks, brick >>
    /\ UNCHANGED << worldBricks, worldSounds, destroyPkts >>
    /\ LeaveUnchanged

NextDestroy ==
    \/ \E p \in Movers : _newPlayer(p)
    \/ \E p \in Movers : PlayerNewBrick(p)
    \/ \E b \in Bricks : GameNewBrick(b)
    \/ \E s \in Sounds : GameNewSoundEmitter(s)
    \/ \E b \in Bricks : BrickSetInterval(b)
    \/ \E s \in Sounds : SoundSetInterval(s)
    \/ \E b \in Bricks : BrickTouching(b)
    \/ \E b \in Bricks, c \in 1..MaxDestroyCalls : BrickDestroyBegin(b, c)
    \/ \E b \in Bricks, c \in 1..MaxDestroyCalls : BrickDestroyEnd(b, c)
    \/ \E s \in Sounds, c \in 1..MaxDestroyCalls : SoundDestroyBegin(s, c)
    \/ \E s \in Sounds, c \in 1..MaxDestroyCalls : SoundDestroyEnd(s, c)

SpecDestroy == Init /\ [][NextDestroy]_vars

\* ----------------------------------------------------------------- timers
\* "for (const brick of bricks) { index = list.indexOf(brick);
\*  if (index !== -1) list.splice(index, 1) }"
RECURSIVE RemoveEach(_, _)
RemoveEach(list, bs) ==
    IF bs = {} THEN list
    ELSE LET b == CHOOSE x \in bs : TRUE
         IN  RemoveEach(RemoveFrom(list, b), bs \ {b})

\* Game.deleteBricks(bricks): _cleanup of each brick, its first entry spliced
\* out of Game.world.bricks, and the delete packet broadcast.
GameDeleteBricks(bs) ==
    /\ bs # {} /\ \A b \in bs : brick[b].made
    /\ brick' = [ b \in Bricks |-> IF b \in bs THEN _cleanup(brick[b]) ELSE brick[b] ]
    /\ timers' = timers \ UNION { StepsOf(b) : b \in bs }
    /\ worldBricks' = RemoveEach(worldBricks, bs)
    /\ ev' = Ev("Game.deleteBricks", NoOne, <<bs>>, "ok", {}, {<<"DeleteBrick", NoOne, "", Broadcast>>})
    /\ UNCHANGED << now, game, lastCast, players, player, localBricks >>
    /\ UNCHANGED << sound, worldSounds, dcall, destroyPkts >>
    /\ LeaveUnchanged

\* Player.deleteBricks(bricks): each brick's first entry spliced out of the
\* player's localBricks and the delete packet sent to the player.
PlayerDeleteBricks(p, bs) ==
    /\ Scripted(p)
    /\ bs # {} /\ \A b \in bs : brick[b].made
    /\ localBricks' = [ localBricks EXCEPT ![p] = RemoveEach(@, bs) ]
    /\ ev' = Ev("Player.deleteBricks", p, <<bs>>, "ok", {}, {<<"DeleteBrick", NoOne, "", SendTo(p)>>})
    /\ UNCHANGED << now, game, lastCast, players, player, timers, brick >>
    /\ LeaveUnchanged
    /\ WorldUnchanged

\* Game.clearMap(): _cleanup of every brick of Game.world.bricks, which is
\* then replaced by an empty list, and ClearMap broadcast.
GameClearMap ==
    /\ brick' = [ b \in Bricks |-> IF b \in Range(worldBricks) THEN _cleanup(brick[b]) ELSE brick[b] ]
    /\ timers' = timers \ UNION { StepsOf(b) : b \in Range(worldBricks) }
    /\ worldBricks' = <<>>
    /\ ev' = Ev("Game.clearMap", NoOne, <<Range(worldBricks)>>, "ok", {}, {<<"ClearMap", NoOne, "", Broadcast>>})
    /\ UNCHANGED << now, game, lastCast, players, player, localBricks >>
    /\ UNCHANGED << sound, worldSounds, dcall, destroyPkts >>
    /\ LeaveUnchanged

\* No destroy() has been called on the entity.
Undestroyed(e) == \A c \in 1..MaxDestroyCalls : dcall[e][c] = "idle"

\* A brick a script still holds for use: no destroy() was called on it and, if
\* it is local, its player has not left.
LiveBrick(b) ==
    /\ Undestroyed(b)
    /\ brick[b].socket # NoOne => ~player[brick[b].socket].destroyed

\* Teardown of entities whose timers were all registered while the entity,
\* and for a local brick its player, was live.
NextTimers ==
    \/ \E p \in Movers : _newPlayer(p)
    \/ \E p \in Movers : ~player[p].destroyed /\ PlayerNewBrick(p)
    \/ \E p \in Movers : ~player[p].destroyed /\ PlayerSetInterval(p)
    \/ \E b \in Bricks : GameNewBrick(b)
    \/ \E b \in Bricks : LiveBrick(b) /\ BrickSetInterval(b)
    \/ \E b \in Bricks : LiveBrick(b) /\ BrickTouching(b)
    \/ \E s \in Sounds : Undestroyed(s) /\ SoundSetInterval(s)
    \/ \E bs \in SUBSET Bricks : GameDeleteBricks(bs)
    \/ \E p \in Movers, bs \in SUBSET Bricks : ~player[p].destroyed /\ PlayerDeleteBricks(p, bs)
    \/ GameClearMap
    \/ \E b \in Bricks : BrickDestroyBegin(b, 1)
    \/ \E b \in Bricks : BrickDestroyEnd(b, 1)
    \/ \E s \in Sounds : SoundDestroyBegin(s, 1)
    \/ \E s \in Sounds : SoundDestroyEnd(s, 1)
    \/ \E p \in Movers : _playerLeft(p)

SpecTimers == Init /\ [][NextTimers]_vars

\* ------------------------------------------------------------------- join
SETTINGS == {"sendBricks", "assignRandomTeam", "playerSpawning"}

\* A script assigns Game.sendBricks, Game.assignRandomTeam or
\* Game.playerSpawning.
GameSet(setting, value) ==
    /\ game[setting] # value
    /\ game' = [ game EXCEPT ![setting] = value ]
    /\ ev' = Quiet
    /\ UNCHANGED << now, lastCast, players, player, timers >>
    /\ LeaveUnchanged
    /\ SessionUnchanged

\* Game.newTeam(team)
GameNewTeam(t) ==
    /\ Len(game.teams) < MaxWorld
    /\ game' = [ game EXCEPT !.teams = Append(@, t) ]
    /\ ev' = Quiet
    /\ UNCHANGED << now, lastCast, players, player, timers >>
    /\ LeaveUnchanged
    /\ SessionUnchanged

\* A playerJoin listener sets player.loadAvatar = false before the join
\* sequence reaches the avatar load.
PlayerSetLoadAvatar(p) ==
    /\ player[p].joinPc = "joining"
    /\ player[p].loadAvatar
    /\ player' = [ player EXCEPT ![p].loadAvatar = FALSE ]
    /\ ev' = Quiet
    /\ UNCHANGED << now, game, lastCast, players, timers >>
    /\ LeaveUnchanged
    /\ SessionUnchanged

\* The once("avatarLoaded") listeners of avatarLoaded() run when the event is
\* emitted: each settles its promise, resolving it or rejecting it with err.
Settle(promises, how) ==
    [ promises EXCEPT ![how] = @ + promises.waiting,
                      !.pending = @ - promises.waiting, !.waiting = 0 ]

\* The .then of the avatar load started by Player._joined: the load succeeded.
\* hasTool: loadTool is set and the avatar carries a tool asset.
AvatarLoaded(p, hasTool) ==
    /\ player[p].avatar = "loading"
    /\ player' = [ player EXCEPT ![p].avatar = "loaded",
                                 ![p].avatarLoadedEmits = @ + 1,
                                 ![p].avatarPromises = Settle(@, "resolved"),
                                 ![p].inventory = IF hasTool THEN AddTool(@, "Tool") ELSE @ ]
    /\ ev' = Ev("avatarLoaded", p, <<>>, "ok", {<<p, "avatarLoaded", "">>}, {})
    /\ UNCHANGED << now, game, lastCast, players, timers >>
    /\ LeaveUnchanged
    /\ SessionUnchanged

\* An avatar load whose failure is reported to nobody.
AvatarFailedSilently(p) ==
    /\ player[p].avatar = "loading"
    /\ player' = [ player EXCEPT ![p].avatar = "failed" ]
    /\ ev' = Ev("avatarLoaded", p, <<>>, "err", {}, {})
    /\ UNCHANGED << now, game, lastCast, players, timers >>
    /\ LeaveUnchanged
    /\ SessionUnchanged

\* The .catch of the avatar load started by Player._joined: the load failed.
AvatarFailed(p) ==
    /\ player[p].avatar = "loading"
    /\ player' = [ player EXCEPT ![p].avatar = "failed", ![p].avatarLoadedEmits = @ + 1,
                                 ![p].avatarPromises = Settle(@, "rejected") ]
    /\ ev' = Ev("avatarLoaded", p, <<>>, "err", {<<p, "avatarLoaded", "err">>}, {})
    /\ UNCHANGED << now, game, lastCast, players, timers >>
    /\ LeaveUnchanged
    /\ SessionUnchanged

NextJoin ==
    \/ \E setting \in SETTINGS, value \in BOOLEAN : GameSet(setting, value)
    \/ \E t \in Teams : GameNewTeam(t)
    \/ \E p \in Players : _newPlayer(p)
    \/ \E p \in Players : PlayerSetLoadAvatar(p)
    \/ \E p \in Players : _joined(p)
    \/ \E p \in Players, hasTool \in BOOLEAN : AvatarLoaded(p, hasTool)
    \/ \E p \in Players : AvatarFailed(p)

SpecJoin == Init /\ [][NextJoin]_vars

\* ------------------------------------------------------------ collections
\* The lists of one or two entities a script passes to a load operation.
ListsOf(S) == { <<x>> : x \in S } \cup { <<x, y>> : x \in S, y \in S }

\* Game.loadBricks(bricks): Game.world.bricks.concat(bricks), and the
\* bricks' creation data broadcast.
GameLoadBricks(bs) ==
    /\ \A i \in 1..Len(bs) : brick[bs[i]].made /\ brick[bs[i]].socket = NoOne
    /\ Len(worldBricks) + Len(bs) <= MaxWorld
    /\ worldBricks' = worldBricks \o bs
    /\ player' = SendBricks(Broadcast, bs)
    /\ ev' = Quiet
    /\ UNCHANGED << now, game, lastCast, players, timers, localBricks, brick >>
    /\ UNCHANGED << sound, worldSounds, dcall, destroyPkts >>
    /\ LeaveUnchanged

\* Game.loadSounds(sounds): Game.world.sounds.concat(sounds)
GameLoadSounds(ss) ==
    /\ Len(worldSounds) + Len(ss) <= MaxWorld
    /\ worldSounds' = worldSounds \o ss
    /\ ev' = Quiet
    /\ UNCHANGED << now, game, lastCast, players, player, timers, localBricks, brick >>
    /\ UNCHANGED << sound, worldBricks, dcall, destroyPkts >>
    /\ LeaveUnchanged

\* Player.loadBricks(bricks): this.localBricks.concat(bricks); the bricks'
\* socket is left as it is.
PlayerLoadBricks(p, bs) ==
    /\ Scripted(p)
    /\ \A i \in 1..Len(bs) : brick[bs[i]].made
    /\ Len(localBricks[p]) + Len(bs) <= MaxWorld
    /\ localBricks' = [ localBricks EXCEPT ![p] = @ \o bs ]
    /\ ev' = Quiet
    /\ UNCHANGED << now, game, lastCast, players, player, timers, brick >>
    /\ LeaveUnchanged
    /\ WorldUnchanged

\* Game.newTeams(teams): Game.world.teams.concat(teams)
GameNewTeams(ts) ==
    /\ Len(game.teams) + Len(ts) <= MaxWorld
    /\ game' = [ game EXCEPT !.teams = @ \o ts ]
    /\ ev' = Quiet
    /\ UNCHANGED << now, lastCast, players, player, timers >>
    /\ LeaveUnchanged
    /\ SessionUnchanged

\* Game.newTool(tool)
GameNewTool(t) ==
    /\ Len(game.tools) < MaxWorld
    /\ game' = [ game EXCEPT !.tools = Append(@, t) ]
    /\ ev' = Quiet
    /\ UNCHANGED << now, lastCast, players, player, timers >>
    /\ LeaveUnchanged
    /\ SessionUnchanged

\* Game.newBot(bot)
GameNewBot(b) ==
    /\ Len(game.bots) < MaxWorld
    /\ game' = [ game EXCEPT !.bots = Append(@, b) ]
    /\ ev' = Quiet
    /\ UNCHANGED << now, lastCast, players, player, timers >>
    /\ LeaveUnchanged
    /\ SessionUnchanged

\* Registration and destruction of bricks and sounds, which are registered
\* only while no destroy() has been called on them.
NextCollect ==
    \/ \E p \in Movers : _newPlayer(p)
    \/ \E p \in Movers : _playerLeft(p)
    \/ \E p \in Movers : ~player[p].destroyed /\ PlayerNewBrick(p)
    \/ \E p \in Movers, bs \in ListsOf(Bricks) :
           ~player[p].destroyed /\ (\A i \in 1..Len(bs) : Undestroyed(bs[i])) /\ PlayerLoadBricks(p, bs)
    \/ \E b \in Bricks : Undestroyed(b) /\ GameNewBrick(b)
    \/ \E bs \in ListsOf(Bricks) : (\A i \in 1..Len(bs) : Undestroyed(bs[i])) /\ GameLoadBricks(bs)
    \/ \E s \in Sounds : Undestroyed(s) /\ GameNewSoundEmitter(s)
    \/ \E ss \in ListsOf(Sounds) : (\A i \in 1..Len(ss) : Undestroyed(ss[i])) /\ GameLoadSounds(ss)
    \/ \E bs \in SUBSET Bricks : GameDeleteBricks(bs)
    \/ \E b \in Bricks : BrickDestroyBegin(b, 1)
    \/ \E b \in Bricks : BrickDestroyEnd(b, 1)
    \/ \E s \in Sounds : SoundDestroyBegin(s, 1)
    \/ \E s \in Sounds : SoundDestroyEnd(s, 1)

SpecCollect == Init /\ [][NextCollect]_vars

\* Every operation that inserts into or removes from a World Store collection.
NextWorld ==
    \/ \E p \in Players : _newPlayer(p)
    \/ \E p \in Players : _playerLeft(p)
    \/ \E b \in Bricks : GameNewBrick(b)
    \/ \E bs \in ListsOf(Bricks) : GameLoadBricks(bs)
    \/ \E s \in Sounds : GameNewSoundEmitter(s)
    \/ \E ss \in ListsOf(Sounds) : GameLoadSounds(ss)
    \/ \E t \in Teams : GameNewTeam(t)
    \/ \E ts \in ListsOf(Teams) : GameNewTeams(ts)
    \/ \E t \in Tools : GameNewTool(t)
    \/ \E b \in Bots : GameNewBot(b)
    \/ \E bs \in SUBSET Bricks : GameDeleteBricks(bs)

SpecWorld == Init /\ [][NextWorld]_vars

\* ----------------------------------------------------------- brick packets
\* The modifications the brick setters hand to createBrickPacket.
Modifications ==
    { "pos", "scale", "rot2", "model", "col", "lightcol", "lightrange", "alpha", "collide",
      "clickable" }

\* Brick.setPosition, setScale, setRotation, setModel, setColor,
\* setLightColor, setLightRange, setVisibility, setCollision, setClickable:
\* the field is assigned and the packet created.  Of the fields only position
\* and scale are part of the model; lightEnabled is the value of that field
\* at the call, on which setLightColor and setLightRange depend.
BrickSet(b, modification, v, lightEnabled) ==
    /\ brick[b].made
    /\ IF modification \in {"lightcol", "lightrange"} /\ ~lightEnabled
       THEN /\ UNCHANGED brick
            /\ ev' = Ev("Brick.set", b, <<modification>>, "rejected", {}, {})
       ELSE /\ brick' = [ brick EXCEPT ![b].position = IF modification = "pos" THEN v ELSE @,
                                       ![b].scale = IF modification = "scale" THEN v ELSE @ ]
            /\ ev' = Ev("Brick.set", b, <<modification>>, "ok", {}, {createBrickPacket(b, modification)})
    /\ UNCHANGED << now, game, lastCast, players, player, timers, localBricks >>
    /\ LeaveUnchanged
    /\ WorldUnchanged

NextBricks ==
    \/ \E p \in Players : _newPlayer(p)
    \/ \E p \in Movers : _playerLeft(p)
    \/ \E p \in Movers : PlayerNewBrick(p)
    \/ \E b \in Bricks, modification \in Modifications, v \in BrickVectors, lightEnabled \in BOOLEAN :
           BrickSet(b, modification, v, lightEnabled)
    \/ \E b \in Bricks : BrickDestroyBegin(b, 1)
    \/ \E b \in Bricks : BrickDestroyEnd(b, 1)

SpecBricks == Init /\ [][NextBricks]_vars

\* ----------------------------------------------------------------- speech
\* Player.userId, assigned when the session authenticates.
userId(p) == IF p = "p1" THEN 1 ELSE 2

UserIds == { userId(p) : p \in Players }

Speeches == {"hi", "bye"}

GetBlockedPlayersNobody(p) == {}

\* Player.getBlockedPlayers: the players of Game.players whose blockedUsers
\* holds this player's userId.
getBlockedPlayers(p) ==
    { target \in Range(players) : userId(p) \in player[target].blockedUsers }

\* A script writes player.blockedUsers (a public array of userIds).
PlayerBlock(p, id) ==
    /\ Scripted(p)
    /\ id \notin player[p].blockedUsers
    /\ player' = [ player EXCEPT ![p].blockedUsers = @ \cup {id} ]
    /\ ev' = Quiet
    /\ UNCHANGED << now, game, lastCast, players, timers >>
    /\ LeaveUnchanged
    /\ SessionUnchanged

PlayerUnblock(p, id) ==
    /\ Scripted(p)
    /\ id \in player[p].blockedUsers
    /\ player' = [ player EXCEPT ![p].blockedUsers = @ \ {id} ]
    /\ ev' = Quiet
    /\ UNCHANGED << now, game, lastCast, players, timers >>
    /\ LeaveUnchanged
    /\ SessionUnchanged

\* Player.setSpeech
PlayerSetSpeech(p, speech) ==
    /\ Scripted(p)
    /\ player' = [ player EXCEPT ![p].speech = speech ]
    /\ ev' = Ev("Player.setSpeech", p, <<speech>>, "ok", {},
                {<<"PlayerModification", p, "f", speech, BroadcastExcept(getBlockedPlayers(p))>>})
    /\ UNCHANGED << now, game, lastCast, players, timers >>
    /\ LeaveUnchanged
    /\ SessionUnchanged

NextSpeech ==
    \/ \E p \in Players : _newPlayer(p)
    \/ \E p \in Players : _playerLeft(p)
    \/ \E p \in Players, id \in UserIds : PlayerBlock(p, id)
    \/ \E p \in Players, id \in UserIds : PlayerUnblock(p, id)
    \/ \E p \in Players, speech \in Speeches : PlayerSetSpeech(p, speech)

SpecSpeech == Init /\ [][NextSpeech]_vars

\* ------------------------------------------------------------------ tools
\* Player.addTool
PlayerAddTool(p, tool) ==
    /\ Scripted(p)
    /\ player' = [ player EXCEPT ![p].inventory = AddTool(@, tool) ]
    /\ ev' = IF IndexOf(player[p].inventory, tool) # -1
             THEN Ev("Player.addTool", p, <<tool>>, "rejected", {}, {})
             ELSE Ev("Player.addTool", p, <<tool>>, "ok", {}, {<<"Tool", tool, "create", SendTo(p)>>})
    /\ UNCHANGED << now, game, lastCast, players, timers >>
    /\ LeaveUnchanged
    /\ SessionUnchanged

\* Player.unequipTool on a player record
UnequipTool(pl, tool) ==
    IF pl.toolEquipped # tool THEN pl ELSE [ pl EXCEPT !.toolEquipped = NoOne ]

\* Player.unequipTool
PlayerUnequipTool(p, tool) ==
    /\ Scripted(p)
    /\ player' = [ player EXCEPT ![p] = UnequipTool(@, tool) ]
    /\ ev' = IF player[p].toolEquipped = tool
             THEN Ev("Player.unequipTool", p, <<tool>>, "ok", {<<tool, "unequipped", p>>},
                     {<<"PlayerModification", p, "h", Broadcast>>})
             ELSE Ev("Player.unequipTool", p, <<tool>>, "ok", {}, {})
    /\ UNCHANGED << now, game, lastCast, players, timers >>
    /\ LeaveUnchanged
    /\ SessionUnchanged

\* Player.equipTool: the tool is added to the inventory first; equipping the
\* tool already equipped unequips it; another equipped tool is unequipped
\* before the new one takes its place.
PlayerEquipTool(p, tool) ==
    /\ Scripted(p)
    /\ LET added == [ player[p] EXCEPT !.inventory = AddTool(@, tool) ]
           currentTool == added.toolEquipped
       IN  IF currentTool = tool
           THEN /\ player' = [ player EXCEPT ![p] = UnequipTool(added, tool) ]
                /\ ev' = Ev("Player.equipTool", p, <<tool>>, "ok", {<<tool, "unequipped", p>>}, {})
           ELSE /\ player' = [ player EXCEPT ![p] = [ added EXCEPT !.toolEquipped = tool ] ]
                /\ ev' = Ev("Player.equipTool", p, <<tool>>, "ok",
                            {<<tool, "equipped", p>>} \cup
                                (IF currentTool # NoOne THEN {<<currentTool, "unequipped", p>>} ELSE {}),
                            {})
    /\ UNCHANGED << now, game, lastCast, players, timers >>
    /\ LeaveUnchanged
    /\ SessionUnchanged

\* Player.removeTool
PlayerRemoveTool(p, tool) ==
    /\ Scripted(p)
    /\ LET index == IndexOf(player[p].inventory, tool)
       IN  IF index = -1
           THEN UNCHANGED player
           ELSE player' = [ player EXCEPT
                    ![p] = UnequipTool([ @ EXCEPT !.inventory = SpliceOne(@, index) ], tool) ]
    /\ ev' = IF IndexOf(player[p].inventory, tool) = -1
             THEN Ev("Player.removeTool", p, <<tool>>, "ok", {}, {})
             ELSE Ev("Player.removeTool", p, <<tool>>, "ok",
                     IF player[p].toolEquipped = tool THEN {<<tool, "unequipped", p>>} ELSE {},
                     {<<"Tool", tool, "destroy", SendTo(p)>>} \cup
                         (IF player[p].toolEquipped = tool
                          THEN {<<"PlayerModification", p, "h", Broadcast>>} ELSE {}))
    /\ UNCHANGED << now, game, lastCast, players, timers >>
    /\ LeaveUnchanged
    /\ SessionUnchanged

NextTools ==
    \/ \E p \in Players : _newPlayer(p)
    \/ \E p \in Movers : _joined(p)
    \/ \E p \in Movers : _playerLeft(p)
    \/ \E t \in Tools : GameNewTool(t)
    \/ \E p \in Movers, t \in Tools : PlayerAddTool(p, t)
    \/ \E p \in Players, t \in Tools : PlayerEquipTool(p, t)
    \/ \E p \in Players, t \in Tools : PlayerUnequipTool(p, t)
    \/ \E p \in Movers, t \in Tools : PlayerRemoveTool(p, t)

SpecTools == Init /\ [][NextTools]_vars

\* -------------------------------------------------------------- serialize
\* The fields of a Brick the serializer is about.  A field that may be
\* undefined (name, model, shape) is the empty set or the set of its value;
\* a name is the sequence of its characters' code points.
BrickFields ==
    { "position", "scale", "color", "visibility", "collision", "name", "rotation",
      "model", "shape", "lightEnabled", "lightColor", "lightRange", "clickable",
      "clickDistance" }

\* const DEFAULT_BRICK = new Brick()
DEFAULT_BRICK ==
    [ position |-> <<0, 0, 0>>, scale |-> <<1, 1, 1>>, color |-> "#C0C0C0",
      visibility |-> 1, collision |-> TRUE, name |-> {}, rotation |-> <<0, 0, 0>>,
      model |-> {}, shape |-> {}, lightEnabled |-> FALSE, lightColor |-> "#000000",
      lightRange |-> 5, clickable |-> FALSE, clickDistance |-> 50 ]

\* The bricks serialize is tried on: every field is a new Brick's or another
\* value; the names are "w" and "é".
BrickValues ==
    [ position : {<<0, 0, 0>>, <<3, 0, 0>>}, scale : {<<1, 1, 1>>, <<2, 1, 1>>},
      color : {"#C0C0C0", "#FF0000"}, visibility : {1, 0}, collision : {TRUE, FALSE},
      name : {{}, {<<119>>}, {<<233>>}}, rotation : {<<0, 0, 0>>, <<0, 0, 90>>},
      model : {{}, {7}}, shape : {{}, {"slope"}}, lightEnabled : {FALSE, TRUE},
      lightColor : {"#000000", "#FFFFFF"}, lightRange : {5, 9},
      clickable : {FALSE, TRUE}, clickDistance : {50, 10} ]

Changed(b) == { f \in BrickFields : b[f] # DEFAULT_BRICK[f] }

SerialBricks(most) == { b \in BrickValues : Cardinality(Changed(b)) <= most }

SerialInputs(longest) ==
    LET bs == SerialBricks(MaxChanged) IN UNION { [ 1..n -> bs ] : n \in 0..longest }

\* Vector3.equalsVector
equalsVector(v, w) == v[1] = w[1] /\ v[2] = w[2] /\ v[3] = w[3]

\* data.<field> = value, when the condition holds
Field(cond, field, value) == IF cond THEN field :> value ELSE <<>>

\* The value of a field that is not undefined.
The(opt) == CHOOSE v \in opt : TRUE

\* if (brick.name), if (brick.model)
TruthyName(opt) == opt # {} /\ opt # {<<>>}
TruthyModel(opt) == opt # {} /\ opt # {0}

\* The UTF-8 bytes of a string, which zlib.deflateSync is given.
RECURSIVE Utf8(_)
Utf8(cs) ==
    IF cs = <<>> THEN <<>>
    ELSE (IF Head(cs) < 128 THEN << Head(cs) >>
          ELSE << 192 + (Head(cs) \div 64), 128 + (Head(cs) % 64) >>) \o Utf8(Tail(cs))

\* Buffer.toString("ascii"): each byte without its highest bit.
ToStringAscii(bytes) == [ i \in DOMAIN bytes |-> bytes[i] % 128 ]

\* serialize, the object built for one brick
data(b) ==
    Field(~equalsVector(b.position, DEFAULT_BRICK.position), "position", b.position)
    @@ Field(~equalsVector(b.scale, DEFAULT_BRICK.scale), "scale", b.scale)
    @@ Field(b.color # DEFAULT_BRICK.color, "color", b.color)
    @@ Field(b.visibility < 1, "visibility", b.visibility)
    @@ Field(~b.collision, "collision", FALSE)
    @@ Field(TruthyName(b.name), "name", The(b.name))
    @@ Field(~equalsVector(b.rotation, DEFAULT_BRICK.rotation), "rotation", b.rotation)
    @@ Field(TruthyModel(b.model), "model", The(b.model))
    @@ Field(b.lightEnabled, "lightEnabled", TRUE)
    @@ Field(b.lightEnabled, "lightColor", b.lightColor)
    @@ Field(b.lightEnabled, "lightRange", b.lightRange)
    @@ Field(b.clickable, "clickable", TRUE)
    @@ Field(b.clickable, "clickDistance", b.clickDistance)

\* JSON.stringify and the bytes deflated: the structure is kept, a string
\* outside the colours becomes its UTF-8 bytes.
Stringify(d) == [ f \in DOMAIN d |-> IF f = "name" THEN Utf8(d[f]) ELSE d[f] ]

\* toString("ascii") and JSON.parse
Parse(d) == [ f \in DOMAIN d |-> IF f = "name" THEN ToStringAscii(d[f]) ELSE d[f] ]

\* serialize(bricks): the contents of the Buffer (deflate is undone by inflate)
serialize(bricks) == [ i \in DOMAIN bricks |-> Stringify(data(bricks[i])) ]

\* deserialize, one brick: a new Brick with every key of the record assigned.
NewBrickFrom(d) ==
    [ f \in BrickFields |->
        IF f \notin DOMAIN d THEN DEFAULT_BRICK[f]
        ELSE IF f \in {"name", "model", "shape"} THEN {d[f]} ELSE d[f] ]

\* deserialize(data)
deserialize(buffer) == [ i \in DOMAIN buffer |-> NewBrickFrom(Parse(buffer[i])) ]

\* A script holds a list of bricks.
InitSerial ==
    /\ now = 0
    /\ game = NewGameObject
    /\ lastCast = [ p \in Players |-> {} ]
    /\ players = <<>>
    /\ player = [ p \in Players |-> NewPlayerObject ]
    /\ timers = {}
    /\ leaveCalls = 0
    /\ leaveEmits = [ p \in Players |-> 0 ]
    /\ removePkts = [ p \in Players |-> 0 ]
    /\ brick = [ b \in Bricks |-> NewBrickObject(b = "b1") ]
    /\ sound = [ s \in Sounds |-> NewSoundObject ]
    /\ worldBricks = <<>>
    /\ worldSounds = <<>>
    /\ localBricks = [ p \in Players |-> <<>> ]
    /\ dcall = [ e \in Bricks \cup Sounds |-> [ c \in 1..MaxDestroyCalls |-> "idle" ] ]
    /\ destroyPkts = [ e \in Bricks \cup Sounds |-> 0 ]
    /\ \E bricks \in SerialInputs(MaxBricks) : ev = Ev("bricks", NoOne, <<bricks>>, <<>>, {}, {})

\* util.serialize.serialize(bricks)
Serialize ==
    /\ ev.op = "bricks"
    /\ ev' = Ev("serialize", NoOne, ev.arg, serialize(ev.arg[1]), {}, {})
    /\ UNCHANGED << now, game, lastCast, players, player, timers >>
    /\ LeaveUnchanged
    /\ SessionUnchanged

\* util.serialize.deserialize(data), on what serialize returned
Deserialize ==
    /\ ev.op = "serialize"
    /\ ev' = Ev("deserialize", NoOne, ev.arg, deserialize(ev.result), {}, {})
    /\ UNCHANGED << now, game, lastCast, players, player, timers >>
    /\ LeaveUnchanged
    /\ SessionUnchanged

NextSerial ==
    \/ Serialize
    \/ Deserialize

SpecSerial == InitSerial /\ [][NextSerial]_vars

\* ---------------------------------------------------------------- loadBrk
\* A line of a map file is the sequence line.trim().split(" ") makes of it.
\* A number is the set of its value, NaN the empty set.
Signature ==
    << "B", "R", "I", "C", "K", "", "W", "O", "R", "K", "S", "H", "O", "P", "", "V0.2.0.0" >>

BlankLine == << "" >>
BrickLineA == << "0", "0", "0", "5", "5", "5", "1", "1", "1", "1" >>
BrickLineB == << "3", "0", "0", "1", "1", "5", "0", "0", "1", "0" >>
LongTeamLine == << ">TEAM", "a", "b", "c", "d", "e", "f", "g", "h", "i" >>
LongNameLine == << "+NAME", "a", "b", "c", "d", "e", "f", "g", "h", "i" >>

BrickLines == { BrickLineA, BrickLineB }

\* The lines a map file is made of.
MapLines ==
    BrickLines \cup
    { BlankLine, LongTeamLine, LongNameLine,
      << "+NAME", "wall" >>, << "+ROT", "45" >>, << "+SHAPE", "spawnpoint" >>,
      << "+MODEL", "7" >>, << "+NOCOLLISION" >>, << "+COLOR", "1", "0", "0" >>,
      << "+LIGHT", "1", "1", "1", "5" >>, << "+SCRIPT", "x" >>,
      << ">TEAM", "red" >>, << ">SLOT", "sword" >> }

\* Lines 3 to 7 of a map file: the three colours, the base size and the sun
\* intensity; or a brick line where the ambient colour belongs.
EnvironmentLines ==
    { << << "0", "0", "0" >>, << "1", "1", "1" >>, << "0", "0", "1" >>, << "5" >>, << "3" >> >>,
      << BrickLineA, << "1", "1", "1" >>, << "0", "0", "1" >>, << "5" >>, << "3" >> >> }

FreeLines(most) == UNION { [ 1..n -> MapLines ] : n \in 0..most }

\* The files loadBrk is tried on: a first line, then either a few lines or a
\* second line, lines 3 to 7 and a few lines more.
MapFiles(most) ==
    { << h >> \o body : h \in { Signature, BlankLine }, body \in FreeLines(most) }
    \cup { << h, l >> \o env \o body :
             h \in { Signature }, l \in { BlankLine, BrickLineB },
             env \in EnvironmentLines, body \in FreeLines(most) }

\* Number(text)
Number(text) ==
    CASE text \in { "", "0" } -> {0}
      [] text = "1" -> {1}
      [] text = "3" -> {3}
      [] text = "5" -> {5}
      [] text = "7" -> {7}
      [] text = "45" -> {45}
      [] OTHER -> {}

\* DATA[i], undefined past the end
At(DATA, i) == IF i <= Len(DATA) THEN DATA[i] ELSE "undefined"

\* DATA[0].replace("+", "")
WithoutPlus(text) ==
    CASE text = "+NAME" -> "NAME" [] text = "+ROT" -> "ROT" [] text = "+SHAPE" -> "SHAPE"
      [] text = "+MODEL" -> "MODEL" [] text = "+NOCOLLISION" -> "NOCOLLISION"
      [] text = "+COLOR" -> "COLOR" [] text = "+LIGHT" -> "LIGHT" [] text = "+SCRIPT" -> "SCRIPT"
      [] OTHER -> text

\* rgbToHex(convertRGB(r, g, b))
HexOf(r, g, b) == << "hex", r, g, b >>

\* new Brick(position, scale, color) with visibility assigned
LoadedBrick(DATA) ==
    [ position |-> << Number(DATA[1]), Number(DATA[2]), Number(DATA[3]) >>,
      scale |-> << Number(DATA[4]), Number(DATA[5]), Number(DATA[6]) >>,
      color |-> HexOf(DATA[7], DATA[8], DATA[9]),
      visibility |-> Number(DATA[10]),
      name |-> {}, rotation |-> << {0}, {0}, {0} >>, shape |-> {}, model |-> {},
      collision |-> TRUE, lightEnabled |-> FALSE, lightRange |-> [ type |-> "number", text |-> "5" ],
      lightColor |-> "#000000" ]

\* loadBrk before its loop
LoadStart ==
    [ status |-> "reading", totalLines |-> 0, bricks |-> <<>>, spawns |-> <<>>,
      tools |-> <<>>, teams |-> <<>>, environment |-> {}, scriptWarning |-> FALSE ]

\* The rotation a ROT line gives.
RotOf(VALUE) ==
    IF Len(VALUE) = 1
    THEN LET r == Number(VALUE[1])
         IN  << {0}, {0}, IF r = {} THEN {} ELSE IF (The(r) % 90) # 0 THEN { The(r) + 90 } ELSE {0} >>
    ELSE << Number(At(VALUE, 1)), Number(At(VALUE, 2)), Number(At(VALUE, 3)) >>

\* The attribute cases: each writes to bricks[currentBrick], the last brick
\* made, and throws a TypeError when no brick has been made.
AttributeOnBrick(st, ATTRIBUTE, VALUE) ==
    LET currentBrick == Len(st.bricks)
        b == st.bricks[currentBrick]
        put(nb) == [ st EXCEPT !.bricks[currentBrick] = nb ]
    IN  IF currentBrick = 0 THEN [ st EXCEPT !.status = "threw" ]
        ELSE CASE ATTRIBUTE = "NAME" -> put([ b EXCEPT !.name = { VALUE } ])
               [] ATTRIBUTE = "ROT" -> put([ b EXCEPT !.rotation = RotOf(VALUE) ])
               [] ATTRIBUTE = "SHAPE" ->
                    [ put([ b EXCEPT !.shape = { VALUE } ]) EXCEPT
                        !.spawns = IF VALUE = << "spawnpoint" >> THEN Append(@, currentBrick) ELSE @ ]
               [] ATTRIBUTE = "MODEL" -> put([ b EXCEPT !.model = Number(At(VALUE, 1)) ])
               [] ATTRIBUTE = "NOCOLLISION" -> put([ b EXCEPT !.collision = FALSE ])
               [] ATTRIBUTE = "LIGHT" ->
                    put([ b EXCEPT !.lightEnabled = TRUE,
                                   !.lightRange = [ type |-> "string", text |-> At(VALUE, 4) ],
                                   !.lightColor = HexOf(At(VALUE, 1), At(VALUE, 2), At(VALUE, 3)) ])

\* The end of the loop body: a line of 10 fields makes a brick, a >TEAM line
\* a team, a >SLOT line a tool.
PlainLine(st, DATA, VALUE) ==
    LET made == IF Len(DATA) = 10 THEN [ st EXCEPT !.bricks = Append(@, LoadedBrick(DATA)) ] ELSE st
        teamed == IF DATA[1] = ">TEAM" THEN [ made EXCEPT !.teams = Append(@, << "name", VALUE >>) ]
                  ELSE made
    IN  IF DATA[1] = ">SLOT" THEN [ teamed EXCEPT !.tools = Append(@, VALUE) ] ELSE teamed

\* A first line that is taken for the signature whatever it holds.
FirstLineUnchecked(st, DATA) == st

\* case 1: the first line is the signature, or the process exits.
FirstLine(st, DATA) ==
    IF DATA # Signature THEN [ st EXCEPT !.status = "exit" ] ELSE st

\* One turn of the loop of loadBrk.
LoadLine(st, DATA) ==
    LET totalLines == st.totalLines + 1
        counted == [ st EXCEPT !.totalLines = totalLines ]
        ATTRIBUTE == WithoutPlus(DATA[1])
        VALUE == Tail(DATA)
    IN  IF totalLines = 1
        THEN FirstLine(counted, DATA)
        ELSE IF totalLines \in 3..7
        THEN [ counted EXCEPT !.environment = @ \cup { << totalLines, DATA >> } ]
        ELSE IF ATTRIBUTE \in { "NAME", "ROT", "SHAPE", "MODEL", "NOCOLLISION", "LIGHT" }
        THEN AttributeOnBrick(counted, ATTRIBUTE, VALUE)
        ELSE IF ATTRIBUTE = "COLOR"
        THEN (IF Len(counted.teams) = 0 THEN counted
              ELSE [ counted EXCEPT !.teams[Len(counted.teams)] =
                        << "Team", @, HexOf(At(VALUE, 1), At(VALUE, 2), At(VALUE, 3)) >> ])
        ELSE IF ATTRIBUTE = "SCRIPT"
        THEN [ counted EXCEPT !.scriptWarning = TRUE ]
        ELSE PlainLine(counted, DATA, VALUE)

\* The loop of loadBrk: it ends with the file, with process.exit or with an
\* exception.
RECURSIVE LoadLines(_, _)
LoadLines(st, LINES) ==
    IF LINES = <<>> \/ st.status # "reading" THEN st
    ELSE LoadLines(LoadLine(st, Head(LINES)), Tail(LINES))

\* loadBrk(map): what the caller gets.
loadBrk(LINES) ==
    LET st == LoadLines(LoadStart, LINES)
    IN  IF st.status = "reading" THEN [ st EXCEPT !.status = "returned" ] ELSE st

\* A map file is on disk.
InitBrk ==
    /\ now = 0
    /\ game = NewGameObject
    /\ lastCast = [ p \in Players |-> {} ]
    /\ players = <<>>
    /\ player = [ p \in Players |-> NewPlayerObject ]
    /\ timers = {}
    /\ leaveCalls = 0
    /\ leaveEmits = [ p \in Players |-> 0 ]
    /\ removePkts = [ p \in Players |-> 0 ]
    /\ brick = [ b \in Bricks |-> NewBrickObject(b = "b1") ]
    /\ sound = [ s \in Sounds |-> NewSoundObject ]
    /\ worldBricks = <<>>
    /\ worldSounds = <<>>
    /\ localBricks = [ p \in Players |-> <<>> ]
    /\ dcall = [ e \in Bricks \cup Sounds |-> [ c \in 1..MaxDestroyCalls |-> "idle" ] ]
    /\ destroyPkts = [ e \in Bricks \cup Sounds |-> 0 ]
    /\ \E LINES \in MapFiles(MaxLines) : ev = Ev("map", NoOne, << LINES >>, <<>>, {}, {})

\* Game.loadBrk / Game.parseBrk of the file
LoadBrk ==
    /\ ev.op = "map"
    /\ ev' = Ev("loadBrk", NoOne, ev.arg, loadBrk(ev.arg[1]), {}, {})
    /\ UNCHANGED << now, game, lastCast, players, player, timers >>
    /\ LeaveUnchanged
    /\ SessionUnchanged

NextBrk == LoadBrk

SpecBrk == InitBrk /\ [][NextBrk]_vars

\* ------------------------------------------------------------ bindToClose
\* game.closing holds the closure of Game.bindToClose (bound, ended), how
\* often the callback was invoked, how many of its invocations are pending,
\* and whether the process has exited.  signals counts SIGINT and SIGTERM.
Signals == {"SIGINT", "SIGTERM"}

Running == ~game.closing.exited

\* Game.bindToClose(callback)
GameBindToClose ==
    /\ Running
    /\ ~game.closing.bound
    /\ game' = [ game EXCEPT !.closing.bound = TRUE ]
    /\ ev' = Quiet
    /\ UNCHANGED << now, lastCast, players, player, timers >>
    /\ LeaveUnchanged
    /\ SessionUnchanged

\* The "exit" listener: if (!ended) callback()
OnExit(closing) ==
    [ closing EXCEPT !.invoked = IF closing.bound /\ ~closing.ended THEN @ + 1 ELSE @,
                     !.exited = TRUE ]

\* SIGINT or SIGTERM: processExit up to its await.  With no listener bound
\* the signal ends the process.
Signal(sig) ==
    /\ Running
    /\ game.closing.invoked < MaxSignals
    /\ game' = [ game EXCEPT !.closing =
                    IF game.closing.bound
                    THEN [ @ EXCEPT !.ended = TRUE, !.invoked = @ + 1, !.pending = @ + 1 ]
                    ELSE [ @ EXCEPT !.exited = TRUE ] ]
    /\ ev' = Ev("signal", NoOne, << sig >>, "ok", {}, {})
    /\ UNCHANGED << now, lastCast, players, player, timers >>
    /\ LeaveUnchanged
    /\ SessionUnchanged

\* The callback's promise settles: processExit goes on to process.exit().
HookSettles ==
    /\ Running
    /\ game.closing.pending > 0
    /\ game' = [ game EXCEPT !.closing = OnExit([ @ EXCEPT !.pending = @ - 1 ]) ]
    /\ ev' = Quiet
    /\ UNCHANGED << now, lastCast, players, player, timers >>
    /\ LeaveUnchanged
    /\ SessionUnchanged

\* Game.shutdown(status)
GameShutdown ==
    /\ Running
    /\ game' = [ game EXCEPT !.closing = OnExit(@) ]
    /\ ev' = Ev("Game.shutdown", NoOne, <<>>, "ok", {}, {})
    /\ UNCHANGED << now, lastCast, players, player, timers >>
    /\ LeaveUnchanged
    /\ SessionUnchanged

NextClose ==
    \/ GameBindToClose
    \/ \E sig \in Signals : Signal(sig)
    \/ HookSettles
    \/ GameShutdown
    \/ \E p \in Players : Running /\ _newPlayer(p)
    \/ \E p \in Players : Running /\ _playerLeft(p)

SpecClose == Init /\ [][NextClose]_vars

\* ------------------------------------------------------------ reassembly
\* The code that reads the socket is not among the sources; the connection's
\* reassembly is modelled from the spec's Connection Manager and from the
\* declaration of ClientSocket._chunk.  A frame on the wire is its payload's
\* length, then the payload.
PayloadBytes == {1, 2}

Frames(longest) == UNION { [ 1..n -> PayloadBytes ] : n \in 1..longest }

FrameLists(most) == UNION { [ 1..n -> Frames(MaxPayload) ] : n \in 0..most }

\* The bytes of a list of frames.
RECURSIVE Wire(_)
Wire(frames) ==
    IF frames = <<>> THEN <<>>
    ELSE << Len(Head(frames)) >> \o Head(frames) \o Wire(Tail(frames))

RECURSIVE Ascending(_)
Ascending(S) ==
    IF S = {} THEN <<>>
    ELSE LET least == CHOOSE x \in S : \A y \in S : x <= y
         IN  << least >> \o Ascending(S \ {least})

\* The reads that deliver the bytes cut at the places of cuts.
ReadsOf(bytes, cuts) ==
    LET at == Ascending(cuts \cup {0, Len(bytes)})
    IN  [ k \in 1..(Len(at) - 1) |-> SubSeq(bytes, at[k] + 1, at[k + 1]) ]

\* Every way of splitting the bytes into successive reads.
Splits(bytes) ==
    IF bytes = <<>> THEN { <<>> }
    ELSE { ReadsOf(bytes, cuts) : cuts \in SUBSET (1..(Len(bytes) - 1)) }

\* socket._chunk of a new connection, with the frames dispatched so far
NewConnection == [ recieve |-> <<>>, remaining |-> 0, frames |-> <<>> ]

\* While the buffer holds a whole frame: extract it and dispatch it.
RECURSIVE Extract(_, _)
Extract(buffer, frames) ==
    IF Len(buffer) >= 1 /\ Len(buffer) >= 1 + buffer[1]
    THEN Extract(SubSeq(buffer, 2 + buffer[1], Len(buffer)),
                 Append(frames, SubSeq(buffer, 2, 1 + buffer[1])))
    ELSE [ recieve |-> buffer,
           remaining |-> IF buffer = <<>> THEN 0 ELSE 1 + buffer[1] - Len(buffer),
           frames |-> frames ]

\* A reassembly that takes each read for a whole number of frames.
OnDataPerRead(conn, chunk) ==
    [ Extract(chunk, conn.frames) EXCEPT !.recieve = <<>>, !.remaining = 0 ]

\* On a readable chunk: append it to the buffer, extract the frames.
OnData(conn, chunk) == Extract(conn.recieve \o chunk, conn.frames)

\* A client has queued frames; its bytes will arrive in some reads.
InitFrames ==
    /\ now = 0
    /\ game = NewGameObject
    /\ lastCast = [ p \in Players |-> {} ]
    /\ players = <<>>
    /\ player = [ p \in Players |-> NewPlayerObject ]
    /\ timers = {}
    /\ leaveCalls = 0
    /\ leaveEmits = [ p \in Players |-> 0 ]
    /\ removePkts = [ p \in Players |-> 0 ]
    /\ brick = [ b \in Bricks |-> NewBrickObject(b = "b1") ]
    /\ sound = [ s \in Sounds |-> NewSoundObject ]
    /\ worldBricks = <<>>
    /\ worldSounds = <<>>
    /\ localBricks = [ p \in Players |-> <<>> ]
    /\ dcall = [ e \in Bricks \cup Sounds |-> [ c \in 1..MaxDestroyCalls |-> "idle" ] ]
    /\ destroyPkts = [ e \in Bricks \cup Sounds |-> 0 ]
    /\ \E frames \in FrameLists(MaxFrames) : \E reads \in Splits(Wire(frames)) :
           ev = Ev("stream", NoOne, << frames, reads >>, NewConnection, {}, {})

\* socket.on("data", chunk): the next read arrives.  ev.arg holds the frames
\* sent and the reads still to come, ev.result the connection.
SocketData ==
    /\ ev.op \in {"stream", "data"}
    /\ ev.arg[2] # <<>>
    /\ ev' = Ev("data", NoOne, << ev.arg[1], Tail(ev.arg[2]) >>,
                OnData(ev.result, Head(ev.arg[2])), {}, {})
    /\ UNCHANGED << now, game, lastCast, players, player, timers >>
    /\ LeaveUnchanged
    /\ SessionUnchanged

NextFrames == SocketData

SpecFrames == InitFrames /\ [][NextFrames]_vars

\* ------------------------------------------------------------------ netId
\* game.ids holds the static counters Brick.brickId,
\* SoundEmitter.soundEmitterId and Player.playerId, the netId of every object
\* (the empty set before construction and once destroy has cleared it) and
\* every netId ever assigned, with its kind.
KindOf(e) == IF e \in Bricks THEN "Brick" ELSE IF e \in Sounds THEN "SoundEmitter" ELSE "Player"

\* A counter that is not advanced.
SameId(id) == id

\* Brick.brickId += 1, SoundEmitter.soundEmitterId += 1, Player.playerId += 1
NextId(id) == id + 1

\* this.netId = <counter>, in the constructor of e.
Construct(ids, e) ==
    LET kind == KindOf(e)
        id == NextId(IF kind = "Brick" THEN ids.brickId
                     ELSE IF kind = "SoundEmitter" THEN ids.soundEmitterId ELSE ids.playerId)
    IN  [ ids EXCEPT !.brickId = IF kind = "Brick" THEN id ELSE @,
                     !.soundEmitterId = IF kind = "SoundEmitter" THEN id ELSE @,
                     !.playerId = IF kind = "Player" THEN id ELSE @,
                     !.netId[e] = { id },
                     !.issued = @ \cup { << kind, id >> } ]

\* The constructor of e has run.
Constructed(e) ==
    IF e \in Bricks THEN brick[e].made
    ELSE IF e \in Sounds THEN game.ids.netId[e] # {} \/ sound[e].destroyed
    ELSE game.ids.netId[e] # {}

\* new Brick(...): by a script, by Brick.clone() of a brick, or by deserialize
\* for a record of the data.
BrickConstruct(b, how) ==
    /\ ~brick[b].made
    /\ how = "clone" => \E o \in Bricks : brick[o].made
    /\ brick' = [ brick EXCEPT ![b].made = TRUE ]
    /\ game' = [ game EXCEPT !.ids = Construct(@, b) ]
    /\ ev' = Ev("new Brick", b, << how >>, "ok", {}, {})
    /\ UNCHANGED << now, lastCast, players, player, timers, localBricks >>
    /\ LeaveUnchanged
    /\ WorldUnchanged

\* new SoundEmitter(sound)
SoundConstruct(s) ==
    /\ game.ids.netId[s] = {}
    /\ ~sound[s].destroyed
    /\ game' = [ game EXCEPT !.ids = Construct(@, s) ]
    /\ ev' = Ev("new SoundEmitter", s, <<>>, "ok", {}, {})
    /\ UNCHANGED << now, lastCast, players, player, timers >>
    /\ LeaveUnchanged
    /\ SessionUnchanged

\* new Player(socket), when a connection is accepted
PlayerConstruct(p) ==
    /\ game.ids.netId[p] = {}
    /\ game' = [ game EXCEPT !.ids = Construct(@, p) ]
    /\ ev' = Ev("new Player", p, <<>>, "ok", {}, {})
    /\ UNCHANGED << now, lastCast, players, player, timers >>
    /\ LeaveUnchanged
    /\ SessionUnchanged

\* No object has been constructed yet.
InitIds ==
    /\ now = 0
    /\ game = NewGameObject
    /\ lastCast = [ p \in Players |-> {} ]
    /\ players = <<>>
    /\ player = [ p \in Players |-> NewPlayerObject ]
    /\ timers = {}
    /\ leaveCalls = 0
    /\ leaveEmits = [ p \in Players |-> 0 ]
    /\ removePkts = [ p \in Players |-> 0 ]
    /\ brick = [ b \in Bricks |-> NewBrickObject(FALSE) ]
    /\ sound = [ s \in Sounds |-> NewSoundObject ]
    /\ worldBricks = <<>>
    /\ worldSounds = <<>>
    /\ localBricks = [ p \in Players |-> <<>> ]
    /\ dcall = [ e \in Bricks \cup Sounds |-> [ c \in 1..MaxDestroyCalls |-> "idle" ] ]
    /\ destroyPkts = [ e \in Bricks \cup Sounds |-> 0 ]
    /\ ev = Ev("init", NoOne, <<>>, "ok", {}, {})

NextIds ==
    \/ \E b \in Bricks, how \in {"new", "clone", "deserialize"} : BrickConstruct(b, how)
    \/ \E s \in Sounds : SoundConstruct(s)
    \/ \E p \in Players : PlayerConstruct(p)
    \/ \E b \in Bricks : BrickDestroyBegin(b, 1)
    \/ \E b \in Bricks : BrickDestroyEnd(b, 1)
    \/ \E s \in Sounds : Constructed(s) /\ SoundDestroyBegin(s, 1)
    \/ \E s \in Sounds : SoundDestroyEnd(s, 1)
    \/ \E p \in Players : Constructed(p) /\ _newPlayer(p)
    \/ \E p \in Players : Constructed(p) /\ _playerLeft(p)

SpecIds == InitIds /\ [][NextIds]_vars

\* ----------------------------------------------------------------- health
Healths == {0, 50, 100, 150}

\* Player.setHealth: a health of 0 or less kills a living player; otherwise
\* the health is stored ("if (health > this.maxHealth) this.health =
\* this.maxHealth" is overwritten by the next statement) and sent to the
\* player.
PlayerSetHealth(p, health) ==
    /\ Scripted(p)
    /\ IF health <= 0 /\ player[p].alive
       THEN /\ player' = [ player EXCEPT ![p].alive = FALSE, ![p].health = 0 ]
            /\ ev' = Ev("Player.setHealth", p, << health >>, "ok", {<<p, "died">>},
                        {<<"Kill", p, TRUE, Broadcast>>, <<"PlayerModification", p, "e", SendTo(p)>>})
       ELSE /\ player' = [ player EXCEPT ![p].health = health ]
            /\ ev' = Ev("Player.setHealth", p, << health >>, "ok", {},
                        {<<"PlayerModification", p, "e", SendTo(p)>>})
    /\ UNCHANGED << now, game, lastCast, players, timers >>
    /\ LeaveUnchanged
    /\ SessionUnchanged

NextHealth ==
    \/ \E p \in Players : _newPlayer(p)
    \/ \E p \in Movers : _joined(p)
    \/ \E p \in Movers : _playerLeft(p)
    \/ \E p \in Players : PlayerKill(p)
    \/ \E p \in Players : PlayerRespawn(p)
    \/ \E p \in Players, health \in Healths : PlayerSetHealth(p, health)

SpecHealth == Init /\ [][NextHealth]_vars

\* ---------------------------------------------------- touch subscriptions
\* Brick.touchingEnded(callback): this.on("touchingEnded", ...)
BrickTouchingEnded(b) ==
    /\ brick[b].made
    /\ brick[b].endedL < MaxListeners
    /\ brick' = [ brick EXCEPT ![b] = [ NewListenerHook(@, "touchingEnded") EXCEPT !.endedL = @ + 1 ] ]
    /\ ev' = Quiet
    /\ UNCHANGED << now, game, lastCast, players, player, timers, localBricks >>
    /\ LeaveUnchanged
    /\ WorldUnchanged

\* disconnect() of a touchingEnded() handle: this.off("touchingEnded", ...)
BrickTouchingEndedDisconnect(b) ==
    /\ brick[b].endedL > 0
    /\ brick' = [ brick EXCEPT ![b] = RemoveListenerHook([ @ EXCEPT !.endedL = @ - 1 ], "touchingEnded") ]
    /\ ev' = Quiet
    /\ UNCHANGED << now, game, lastCast, players, player, timers, localBricks >>
    /\ LeaveUnchanged
    /\ WorldUnchanged

NextSubs ==
    \/ \E p \in Players : _newPlayer(p)
    \/ \E p \in Players : _playerLeft(p)
    \/ \E p \in Players : PlayerNewBrick(p)
    \/ \E b \in Bricks : BrickTouching(b)
    \/ \E b \in Bricks : BrickTouchingDisconnect(b)
    \/ \E b \in Bricks : BrickTouchingEnded(b)
    \/ \E b \in Bricks : BrickTouchingEndedDisconnect(b)

SpecSubs == Init /\ [][NextSubs]_vars

\* The proximity detector with scripts that leave a player that has left the
\* game alone.
NextScan ==
    \/ \E p \in Players : _newPlayer(p)
    \/ \E p \in Movers : _joined(p)
    \/ \E p \in Movers : _playerLeft(p)
    \/ \E p \in Movers, v \in Positions : ~player[p].destroyed /\ PlayerSetPosition(p, v)
    \/ \E p \in Movers : ~player[p].destroyed /\ PlayerKill(p)
    \/ \E p \in Movers : ~player[p].destroyed /\ PlayerRespawn(p)
    \/ \E p \in Movers : ~player[p].destroyed /\ PlayerNewBrick(p)
    \/ \E b \in Bricks : BrickTouching(b)
    \/ \E b \in Bricks : Scan(b)

SpecScan == Init /\ [][NextScan]_vars

\* The places of a player, in tenths of a unit, the separation test is tried
\* on against a unit brick at the origin: on both sides of close + 0.4 along
\* x, y and z.
TestPlaces ==
    { << x, y, z >> : x \in {-15, -14, 0, 23, 24}, y \in {0, 24}, z \in {-54, -53, 0, 13, 14} }

\* The loop body of Brick._hitDetection for one player at a place.
HitTest(pp) ==
    /\ ev' = Ev("hitTest", NoOne, << <<0, 0, 0>>, <<10, 10, 10>>, pp, <<10, 10, 10>> >>,
                TouchedBox(<<0, 0, 0>>, <<10, 10, 10>>, pp, <<10, 10, 10>>), {}, {})
    /\ UNCHANGED << now, game, lastCast, players, player, timers >>
    /\ LeaveUnchanged
    /\ SessionUnchanged

NextHit ==
    \/ NextScan
    \/ \E pp \in TestPlaces : HitTest(pp)

SpecHit == Init /\ [][NextHit]_vars

\* ------------------------------------------------- Game.loadBrk, parseBrk
\* Paths are lists of segments and a segment is a list of characters; the
\* extension ".brk" and the parent segment ".." are single tokens.
Parent == << ".." >>

Segments == { << "m" >>, << "m", "e" >>, << "a", ".brk" >>, Parent }

\* The locations a script passes.
Locations(longest) == UNION { [ 1..n -> Segments ] : n \in 1..longest }

\* resolve(serverSettings.mapDirectory): the absolute path /m
MapDirectory == << << "m" >> >>

\* path.join: the segments of both, normalised (a ".." drops the segment
\* before it, and stays at the root).
RECURSIVE Normalize(_, _)
Normalize(done, rest) ==
    IF rest = <<>> THEN done
    ELSE IF Head(rest) = Parent
    THEN Normalize(IF done = <<>> THEN done ELSE SubSeq(done, 1, Len(done) - 1), Tail(rest))
    ELSE Normalize(Append(done, Head(rest)), Tail(rest))

join(directory, location) == Normalize(directory, location)

\* The path as the string the checks of loadBrk see: "/" before each segment.
RECURSIVE PathString(_)
PathString(path) ==
    IF path = <<>> THEN <<>> ELSE << "/" >> \o Head(path) \o PathString(Tail(path))

\* A test of containment that compares whole segments.
StartsWithSegments(brkFile, mapDirectory) ==
    /\ Len(mapDirectory) <= Len(brkFile)
    /\ SubSeq(brkFile, 1, Len(mapDirectory)) = mapDirectory

\* brkFile.indexOf(mapDirectory) === 0, on the strings
StartsWith(brkFile, mapDirectory) ==
    LET text == PathString(brkFile)
        prefix == PathString(mapDirectory)
    IN  /\ Len(prefix) <= Len(text)
        /\ SubSeq(text, 1, Len(prefix)) = prefix

\* brkFile.endsWith(".brk")
EndsWithBrk(brkFile) ==
    LET text == PathString(brkFile)
    IN  text # <<>> /\ text[Len(text)] = ".brk"

\* The checks both operations make before anything else: the error thrown,
\* if any.
LocationError(location) ==
    IF game.mapDirectory = {} THEN { "without mapDirectory" }
    ELSE IF ~StartsWith(join(The(game.mapDirectory), location), The(game.mapDirectory))
    THEN { "outside of map folder" }
    ELSE IF ~EndsWithBrk(join(The(game.mapDirectory), location))
    THEN { "not a .brk file" }
    ELSE {}

\* What may be found at a path: nothing readable, or one of these files.
DiskMaps ==
    { << Signature, BrickLineA, << "+SHAPE", "spawnpoint" >> >>,
      << Signature, BrickLineA, BrickLineB >>,
      << Signature, << "+NAME", "wall" >> >>,
      << BlankLine, BrickLineA >> }

DiskFiles == { {} } \cup { { LINES } : LINES \in DiskMaps }

\* scripts.loadBrk(brkFile): readFile rejects, or the file is loaded.
ReadAndLoad(file) ==
    IF file = {} THEN [ LoadStart EXCEPT !.status = "threw" ] ELSE loadBrk(The(file))

\* The Brick objects the loader makes, by their place in its list.
FileBrickIds == << "f1", "f2", "f3", "f4" >>

FileBricks(n) == SubSeq(FileBrickIds, 1, n)

\* Game.loadBrk(location) with the file found at the path.
GameLoadBrk(location, file) ==
    LET error == LocationError(location)
        brkFile == join(The(game.mapDirectory), location)
        brkData == ReadAndLoad(file)
        cleared == {<<"ClearMap", NoOne, "", Broadcast>>}
        sent == IF Len(brkData.bricks) > 0 THEN {<<"Brick", NoOne, "create", Broadcast>>} ELSE {}
    IN  /\ Running
        /\ IF error # {}
           THEN /\ ev' = Ev("Game.loadBrk", NoOne, <<>>,
                            [ status |-> "threw", error |-> error, handed |-> {}, data |-> LoadStart ],
                            {}, {})
                /\ UNCHANGED << game, brick, timers, worldBricks >>
           ELSE /\ brick' = [ b \in Bricks |->
                                IF b \in Range(worldBricks) THEN _cleanup(brick[b]) ELSE brick[b] ]
                /\ timers' = timers \ UNION { StepsOf(b) : b \in Range(worldBricks) }
                /\ worldBricks' = IF brkData.status = "returned"
                                  THEN FileBricks(Len(brkData.bricks)) ELSE <<>>
                /\ game' = [ game EXCEPT
                               !.spawns = IF brkData.status = "returned"
                                          THEN [ i \in DOMAIN brkData.spawns |->
                                                    FileBrickIds[brkData.spawns[i]] ]
                                          ELSE @,
                               !.closing = IF brkData.status = "exit" THEN OnExit(@) ELSE @ ]
                /\ ev' = Ev("Game.loadBrk", NoOne, <<>>,
                            [ status |-> brkData.status, error |-> {}, handed |-> { brkFile },
                              data |-> brkData ],
                            {}, IF brkData.status = "returned" THEN cleared \cup sent ELSE cleared)
        /\ UNCHANGED << now, lastCast, players, player, localBricks >>
        /\ UNCHANGED << sound, worldSounds, dcall, destroyPkts >>
        /\ LeaveUnchanged

\* Game.parseBrk(location) with the file found at the path.
GameParseBrk(location, file) ==
    LET error == LocationError(location)
        brkFile == join(The(game.mapDirectory), location)
        brkData == ReadAndLoad(file)
    IN  /\ Running
        /\ IF error # {}
           THEN /\ ev' = Ev("Game.parseBrk", NoOne, <<>>,
                            [ status |-> "threw", error |-> error, handed |-> {}, data |-> LoadStart ],
                            {}, {})
                /\ UNCHANGED game
           ELSE /\ game' = [ game EXCEPT !.closing = IF brkData.status = "exit" THEN OnExit(@) ELSE @ ]
                /\ ev' = Ev("Game.parseBrk", NoOne, <<>>,
                            [ status |-> brkData.status, error |-> {}, handed |-> { brkFile },
                              data |-> brkData ],
                            {}, {})
        /\ UNCHANGED << now, lastCast, players, player, timers >>
        /\ LeaveUnchanged
        /\ SessionUnchanged

\* The server starts with or without serverSettings.mapDirectory.
InitMap ==
    /\ now = 0
    /\ game \in { [ NewGameObject EXCEPT !.mapDirectory = d ] : d \in { {}, { MapDirectory } } }
    /\ lastCast = [ p \in Players |-> {} ]
    /\ players = <<>>
    /\ player = [ p \in Players |-> NewPlayerObject ]
    /\ timers = {}
    /\ leaveCalls = 0
    /\ leaveEmits = [ p \in Players |-> 0 ]
    /\ removePkts = [ p \in Players |-> 0 ]
    /\ brick = [ b \in Bricks |-> NewBrickObject(b = "b1") ]
    /\ sound = [ s \in Sounds |-> NewSoundObject ]
    /\ worldBricks = <<>>
    /\ worldSounds = <<>>
    /\ localBricks = [ p \in Players |-> <<>> ]
    /\ dcall = [ e \in Bricks \cup Sounds |-> [ c \in 1..MaxDestroyCalls |-> "idle" ] ]
    /\ destroyPkts = [ e \in Bricks \cup Sounds |-> 0 ]
    /\ ev = Ev("init", NoOne, <<>>, "ok", {}, {})

NextMap ==
    \/ \E location \in Locations(MaxSegments), file \in DiskFiles : GameLoadBrk(location, file)
    \/ \E location \in Locations(MaxSegments), file \in DiskFiles : GameParseBrk(location, file)
    \/ Running /\ GameNewBrick("b1")
    \/ \E p \in Movers : Running /\ _newPlayer(p)

SpecMap == InitMap /\ [][NextMap]_vars

\* ------------------------------------------------------------ Brick.clicked
\* Where a clicking player stands, and the distances a script sets.
ClickPlaces == { <<0, 0, 0>>, <<3, 0, 0>>, <<8, 0, 0>>, <<60, 0, 0>> }

ClickDistances == { 0, 4 }

\* setClickable(clickable, clickDistance): a falsy distance keeps the old one.
setClickable(br, clickable, clickDistance) ==
    [ br EXCEPT !.clickable = clickable,
                !.clickDistance = IF Truthy(clickDistance) THEN clickDistance ELSE @ ]

\* Brick.setClickable called by a script.
BrickSetClickable(b, clickable, clickDistance) ==
    /\ brick[b].made
    /\ brick' = [ brick EXCEPT ![b] = setClickable(@, clickable, clickDistance) ]
    /\ ev' = Ev("setClickable", b, << clickable, clickDistance >>, "ok", {},
                { createBrickPacket(b, "clickable") })
    /\ UNCHANGED << now, game, lastCast, players, player, timers, localBricks >>
    /\ LeaveUnchanged
    /\ WorldUnchanged

\* Brick.clicked(callback): the brick is made clickable if it is not, and
\* the listener is registered; clickL counts the registered listeners and
\* clickGone the handles whose listener is gone.
BrickClicked(b) ==
    /\ brick[b].made
    /\ brick[b].clickL + brick[b].clickGone < MaxClickSubs
    /\ brick' = [ brick EXCEPT ![b] =
                    [ (IF ~@.clickable THEN setClickable(@, TRUE, @.clickDistance) ELSE @)
                        EXCEPT !.clickL = @ + 1 ] ]
    /\ ev' = Ev("Brick.clicked", b, <<>>, "ok", {},
                IF ~brick[b].clickable THEN { createBrickPacket(b, "clickable") } ELSE {})
    /\ UNCHANGED << now, game, lastCast, players, player, timers, localBricks >>
    /\ LeaveUnchanged
    /\ WorldUnchanged

\* disconnect() of a clicked() handle whose listener is still registered
\* (live) or already gone: off("clicked", clickEvent), then
\* setClickable(false) with the default distance.
BrickClickedDisconnect(b, live) ==
    /\ IF live THEN brick[b].clickL > 0 ELSE brick[b].clickGone > 0
    /\ brick' = [ brick EXCEPT ![b] =
                    setClickable([ @ EXCEPT !.clickL = IF live THEN @ - 1 ELSE @,
                                            !.clickGone = IF live THEN @ + 1 ELSE @ ],
                                 FALSE, ClickDistance) ]
    /\ ev' = Ev("clicked.disconnect", b, << live, brick[b].clickL >>, "ok", {},
                { createBrickPacket(b, "clickable") })
    /\ UNCHANGED << now, game, lastCast, players, player, timers, localBricks >>
    /\ LeaveUnchanged
    /\ WorldUnchanged

\* clickEvent's test: the sum of the squared differences against clickDistance.
Secure(b, p) ==
    LET d(i) == brick[b].position[i] - player[p].position[i]
    IN  (d(1) * d(1)) + (d(2) * d(2)) + (d(3) * d(3)) <= brick[b].clickDistance

\* The "clicked" event of brick b for player p: every registered clickEvent
\* calls its callback with the player and the flag.
Click(b, p) ==
    /\ brick[b].clickL > 0
    /\ p \in Range(players)
    /\ ev' = Ev("clicked", b,
                << p, brick[b].position, player[p].position, brick[b].clickDistance >>,
                Secure(b, p), { << b, "clicked", p >> }, {})
    /\ UNCHANGED << now, game, lastCast, players, player, timers >>
    /\ LeaveUnchanged
    /\ SessionUnchanged

NextClick ==
    \/ \E p \in Movers : _newPlayer(p)
    \/ \E p \in Movers : _joined(p)
    \/ \E p \in Movers, v \in ClickPlaces : PlayerSetPosition(p, v)
    \/ \E b \in Bricks, c \in BOOLEAN, d \in ClickDistances : BrickSetClickable(b, c, d)
    \/ \E b \in Bricks : BrickClicked(b)
    \/ \E b \in Bricks, live \in BOOLEAN : BrickClickedDisconnect(b, live)
    \/ \E b \in Bricks, p \in Players : Click(b, p)

SpecClick == Init /\ [][NextClick]_vars

\* ------------------------------------------- equipTool across its awaits
\* equipTool from "const currentTool = this.toolEquipped" up to its next
\* await or its end, on a player record: equipping the equipped tool
\* unequips it; another equipped tool is unequipped and the call waits;
\* with no tool equipped the tool is equipped at once.
EquipAfterAdd(pl, tool) ==
    LET currentTool == pl.toolEquipped
    IN  IF currentTool = tool
        THEN [ UnequipTool(pl, tool) EXCEPT !.equipping = {} ]
        ELSE IF currentTool # NoOne
        THEN [ UnequipTool(pl, currentTool) EXCEPT
                 !.equipping = { [ pc |-> "unequipTool", tool |-> tool ] } ]
        ELSE [ pl EXCEPT !.toolEquipped = tool, !.equipping = {} ]

\* Player.equipTool(tool) up to its first await: a tool that is not in the
\* inventory is pushed by addTool, whose packet the call then waits for.
PlayerEquipToolBegin(p, tool) ==
    /\ Scripted(p)
    /\ player[p].equipping = {}
    /\ player' = [ player EXCEPT ![p] =
                    IF IndexOf(@.inventory, tool) = -1
                    THEN [ @ EXCEPT !.inventory = AddTool(@, tool),
                                    !.equipping = { [ pc |-> "addTool", tool |-> tool ] } ]
                    ELSE EquipAfterAdd(@, tool) ]
    /\ ev' = Ev("Player.equipTool", p, <<tool>>, "begun", {}, {})
    /\ UNCHANGED << now, game, lastCast, players, timers >>
    /\ LeaveUnchanged
    /\ SessionUnchanged

\* Player.equipTool resumed after an await: after addTool it goes on from
\* currentTool; after unequipTool it sets toolEquipped.
PlayerEquipToolResume(p) ==
    /\ player[p].equipping # {}
    /\ LET call == The(player[p].equipping)
       IN  /\ player' = [ player EXCEPT ![p] =
                            IF call.pc = "addTool"
                            THEN EquipAfterAdd([ @ EXCEPT !.equipping = {} ], call.tool)
                            ELSE [ @ EXCEPT !.toolEquipped = call.tool, !.equipping = {} ] ]
           /\ ev' = Ev("Player.equipTool", p, <<call.tool>>, "resumed", {}, {})
    /\ UNCHANGED << now, game, lastCast, players, timers >>
    /\ LeaveUnchanged
    /\ SessionUnchanged

NextEquip ==
    \/ \E p \in Movers : _newPlayer(p)
    \/ \E p \in Movers : _joined(p)
    \/ \E p \in Movers, t \in Tools : PlayerAddTool(p, t)
    \/ \E p \in Movers, t \in Tools : PlayerRemoveTool(p, t)
    \/ \E p \in Movers, t \in Tools : PlayerUnequipTool(p, t)
    \/ \E p \in Movers : PlayerRespawn(p)
    \/ \E p \in Movers, t \in Tools : PlayerEquipToolBegin(p, t)
    \/ \E p \in Movers : PlayerEquipToolResume(p)

SpecEquip == Init /\ [][NextEquip]_vars

\* ------------------------------------------ brick creation during a join
\* Scripts parent a brick to the game once.
NextSend ==
    \/ \E p \in Players : _newPlayer(p)
    \/ \E p \in Players : _joined(p)
    \/ \E p \in Movers : _playerLeft(p)
    \/ \E b \in Bricks : b \notin Range(worldBricks) /\ GameNewBrick(b)
    \/ \E b \in Bricks : b \notin Range(worldBricks) /\ GameLoadBricks(<< b >>)

\* What each session receives is recorded.
InitSend ==
    /\ now = 0
    /\ game = [ NewGameObject EXCEPT !.recording = TRUE ]
    /\ lastCast = [ p \in Players |-> {} ]
    /\ players = <<>>
    /\ player = [ p \in Players |-> NewPlayerObject ]
    /\ timers = {}
    /\ leaveCalls = 0
    /\ leaveEmits = [ p \in Players |-> 0 ]
    /\ removePkts = [ p \in Players |-> 0 ]
    /\ brick = [ b \in Bricks |-> NewBrickObject(TRUE) ]
    /\ sound = [ s \in Sounds |-> NewSoundObject ]
    /\ worldBricks = <<>>
    /\ worldSounds = <<>>
    /\ localBricks = [ p \in Players |-> <<>> ]
    /\ dcall = [ e \in Bricks \cup Sounds |-> [ c \in 1..MaxDestroyCalls |-> "idle" ] ]
    /\ destroyPkts = [ e \in Bricks \cup Sounds |-> 0 ]
    /\ ev = Ev("init", NoOne, <<>>, "ok", {}, {})

SpecSend == InitSend /\ [][NextSend]_vars

\* ---------------------------------------------------- Player.avatarLoaded
\* avatarLoaded() on a player record: resolved at once when _avatarLoaded is
\* set, which the successful load does; a listener waits for the event
\* otherwise.
AvatarLoadedCall(pl) ==
    IF pl.avatar = "loaded"
    THEN [ pl EXCEPT !.avatarPromises.resolved = @ + 1 ]
    ELSE [ pl EXCEPT !.avatarPromises.waiting = @ + 1, !.avatarPromises.pending = @ + 1 ]

\* Player.avatarLoaded()
PlayerAvatarLoaded(p) ==
    /\ Scripted(p)
    /\ LET made == player[p].avatarPromises
       IN  made.pending + made.resolved + made.rejected < MaxPromises
    /\ player' = [ player EXCEPT ![p] = AvatarLoadedCall(@) ]
    /\ ev' = Ev("Player.avatarLoaded", p, << player[p].avatar >>, "ok", {}, {})
    /\ UNCHANGED << now, game, lastCast, players, timers >>
    /\ LeaveUnchanged
    /\ SessionUnchanged

NextAvatar ==
    \/ \E p \in Movers : _newPlayer(p)
    \/ \E p \in Movers : _joined(p)
    \/ \E p \in Movers : _playerLeft(p)
    \/ \E p \in Movers : AvatarLoaded(p, FALSE)
    \/ \E p \in Movers : AvatarFailed(p)
    \/ \E p \in Movers : ~player[p].destroyed /\ PlayerAvatarLoaded(p)

SpecAvatar == Init /\ [][NextAvatar]_vars

\* -------------------------------------------------------------- properties
\* The last handler run was a scan of brick b; TouchingBefore is the
\* touching-set that scan started from.
ScanOf(b) == ev.op = "scan" /\ ev.who = b
TouchingBefore == ev.arg[1]
Emitted(b, event, p) == <<b, event, p>> \in ev.emits
Overlapping(b, p) == Touched(b, p) /\ player[p].alive

\* C2 as claimed: "touching" is emitted for an actor only on the scan at
\* which it enters the touching-set, never again while the overlap goes on.
C2_TouchingOnlyOnEntry ==
    \A b \in Bricks, p \in Players :
        (ScanOf(b) /\ Emitted(b, "touching", p)) => p \notin TouchingBefore

\* C2 amended: in every scan of a brick, "touching" is emitted for exactly
\* the actors the scan examines that overlap the brick and are alive, on
\* every scan of the overlap and not only on the first; such an actor is in
\* the touching-set after the scan.
C2_TouchingOnEveryOverlappingScan ==
    \A b \in Bricks, p \in Players :
        ScanOf(b) =>
            /\ Emitted(b, "touching", p) <=> (p \in Examined(b) /\ Overlapping(b, p))
            /\ Emitted(b, "touching", p) => p \in brick[b].playersTouching

\* A scan emitted "touching" for an actor that was in the touching-set already.
C2_Witness ==
    \E b \in Bricks, p \in Players :
        ScanOf(b) /\ p \in TouchingBefore /\ Emitted(b, "touching", p)

C8_TeardownPostcondition ==
    \A p \in Players :
        (ev.op = "_playerLeft" /\ ev.who = p /\ player[p].authenticated) =>
            /\ p \notin Range(players)
            /\ player[p].destroyed
            /\ player[p].listeners = 0
            /\ StepsOf(p) = {}
            /\ <<"Game", "playerLeave", p>> \in ev.emits
            /\ <<"RemovePlayer", p, "", Range(players) \ {p}>> \in ev.pkts

\* The teardown of a joined player that had registered an interval, with
\* another session still in the game.
C8_Witness ==
    \E p \in Players :
        /\ ev.op = "_playerLeft" /\ ev.who = p
        /\ player[p].joinPc = "joined" /\ player[p].steps > 0
        /\ Len(players) > 0

\* C9 as claimed: per player at most one playerLeave notification and one
\* RemovePlayer broadcast, however often Game._playerLeft is called.
C9_TornDownOnce ==
    \A p \in Players : leaveEmits[p] <= 1 /\ removePkts[p] <= 1

\* C10 as claimed: once a session has left, no operation changes the
\* player's fields or the intervals it owns.
C10_LeftSessionIsAbsorbing ==
    [][ \A p \in Players :
            (player[p].destroyed /\ ev'.op # "_playerLeft"
                /\ player'[p].joinPc = player[p].joinPc) =>
                (player'[p] = player[p] /\ { t \in timers' : t[1] = p } = StepsOf(p)) ]_vars

\* The last handler run was a position update of session p; PosReceived is
\* the array it was given and PosBefore the fields stored when it began.
UpdateOf(p) == ev.op = "_updatePositionForOthers" /\ ev.who = p
PosReceived == ev.arg[1]
PosBefore == ev.arg[2]

\* C5: two position broadcasts of one session are at least 50 ms apart, and
\* an update that arrives less than 50 ms after the last accepted one changes
\* no stored field and sends no packet.
C5_BroadcastsThrottled ==
    [][ \A p \in Players :
            /\ lastCast'[p] # lastCast[p] =>
                   \A t \in lastCast[p], u \in lastCast'[p] : u - t >= ThrottleMs
            /\ (UpdateOf(p)' /\ ev' # ev /\ now - player[p].positionDeltaTime < ThrottleMs) =>
                   (player'[p] = player[p] /\ ev'.pkts = {} /\ lastCast'[p] = lastCast[p]) ]_vars

\* An update that carried a new x arrived inside the window of an earlier
\* broadcast and was dropped.
C5_Witness ==
    \E p \in Players :
        /\ UpdateOf(p) /\ ev.result = "dropped"
        /\ \E t \in lastCast[p] : now - t < ThrottleMs
        /\ Truthy(PosReceived[1]) /\ PosReceived[1] # PosBefore[1]

\* C6 as claimed: once the 50 ms window after a burst has passed, the stored
\* position holds the last value the burst submitted (values without a 0).
C6_LastValueWins ==
    \A p \in Players :
        (UpdateOf(p) /\ (\A i \in 1..5 : Truthy(PosReceived[i]))
            /\ now - player[p].positionDeltaTime >= ThrottleMs) =>
            Stored(player[p]) = PosReceived

\* C7 as claimed: an accepted update stores every received value, its tag
\* string names exactly the fields among x, y, z and yaw whose received value
\* differs from the stored one, and no packet is sent when none differs.
C7_TagsAreExactlyTheChangedFields ==
    \A p \in Players :
        (UpdateOf(p) /\ ev.result = "accepted") =>
            LET differs(i) == PosReceived[i] # PosBefore[i]
                tags == (IF differs(1) THEN "A" ELSE "") \o (IF differs(2) THEN "B" ELSE "")
                            \o (IF differs(3) THEN "C" ELSE "") \o (IF differs(4) THEN "F" ELSE "")
            IN  /\ Stored(player[p]) = PosReceived
                /\ tags = "" => ev.pkts = {}
                /\ tags # "" => \E pkt \in ev.pkts : pkt[1] = "Figure" /\ pkt[3] = tags

\* C1 as claimed: of the destroy() calls made on one Brick or SoundEmitter
\* only one gets past the "already destroyed" test, and one destroy packet
\* is emitted for the entity.
C1_OneDestroyTakesEffect ==
    \A e \in Bricks \cup Sounds :
        /\ destroyPkts[e] <= 1
        /\ Cardinality({ c \in 1..MaxDestroyCalls : dcall[e][c] \in {"awaiting", "resolved"} }) <= 1

\* The entity owns a scheduled timer: an interval of its setInterval or, for
\* a brick, a running proximity scan.
OwnsTimer(e) == StepsOf(e) # {} \/ (e \in Bricks /\ brick[e].hitTimers > 0)

\* C11 as claimed: a destroyed brick or sound emitter, a brick just deleted
\* by deleteBricks or clearMap, and a departed session with its local bricks
\* own no scheduled timer.
C11_NoTimerSurvivesTeardown ==
    /\ \A e \in Bricks \cup Sounds :
           (IF e \in Bricks THEN brick[e].destroyed ELSE sound[e].destroyed) => ~OwnsTimer(e)
    /\ \A p \in Players :
           player[p].destroyed =>
               (~OwnsTimer(p) /\ \A b \in Bricks : brick[b].socket = p => ~OwnsTimer(b))
    /\ ev.op \in {"Game.deleteBricks", "Game.clearMap"} => \A b \in ev.arg[1] : ~OwnsTimer(b)

\* The last handler run completed the join of session p.
JoinedNow(p) == ev.op = "_joined" /\ ev.who = p

\* The steps the join-order claim names, and the order it gives them.
ClaimedJoinSteps ==
    { "playerJoin", "sendAuthInfo", "_getClients", "_greet", "setEnvironment", "loadBricks",
      "loadSounds", "_createTeams", "_createTools", "_createBots", "setTeam", "respawn",
      "_createFigures", "setAvatar", "restartTimer", "initialSpawn" }
ClaimedJoinOrder(p) ==
    <<"playerJoin", "sendAuthInfo", "_getClients", "_greet", "setEnvironment">>
        \o (IF game.sendBricks THEN <<"loadBricks">> ELSE <<>>)
        \o <<"loadSounds", "_createTeams", "_createTools", "_createBots">>
        \o (IF game.assignRandomTeam /\ game.teams # <<>> THEN <<"setTeam">> ELSE <<>>)
        \o (IF game.playerSpawning THEN <<"respawn">> ELSE <<>>)
        \o <<"_createFigures">>
        \o (IF player[p].loadAvatar THEN <<"setAvatar">> ELSE <<>>)
        \o <<"restartTimer", "initialSpawn">>

\* C12: a completed join initiated its steps in the claimed order, each
\* conditional step exactly when its setting holds, after Game's playerJoin
\* and with the player's initialSpawn as the last step of the sequence.
C12_JoinOrder ==
    \A p \in Players :
        JoinedNow(p) =>
            LET IsClaimed(x) == x \in ClaimedJoinSteps
            IN  SelectSeq(player[p].joinLog, IsClaimed) = ClaimedJoinOrder(p)

\* A join with a team to assign, no brick download and an avatar load.
C12_Witness ==
    \E p \in Players :
        /\ JoinedNow(p)
        /\ ~game.sendBricks /\ game.assignRandomTeam /\ game.teams # <<>>
        /\ player[p].loadAvatar /\ player[p].team # NoOne

\* C13: a session whose avatar load failed has completed its join, with
\* initialSpawn emitted on the player and on Game, and got exactly one
\* avatarLoaded event, which carries the error; a join that started an
\* avatar load completes while the load is still pending.
C13_AvatarFailureDoesNotBlockJoin ==
    \A p \in Players :
        /\ player[p].avatar = "failed" =>
               /\ player[p].joinPc = "joined"
               /\ \E i \in 1..Len(player[p].joinLog) : player[p].joinLog[i] = "initialSpawn"
               /\ player[p].joinLog[Len(player[p].joinLog)] = "Game.initialSpawn"
               /\ player[p].avatarLoadedEmits = 1
        /\ (ev.op = "avatarLoaded" /\ ev.who = p /\ ev.result = "err") =>
               ev.emits = {<<p, "avatarLoaded", "err">>}
        /\ JoinedNow(p) /\ player[p].loadAvatar => player[p].avatar = "loading"

\* The avatar load of a joined session has just failed.
C13_Witness ==
    \E p \in Players :
        ev.op = "avatarLoaded" /\ ev.who = p /\ ev.result = "err" /\ player[p].avatar = "failed"

\* C14 as claimed: once a destroy() of an entity has completed, the entity
\* occurs neither in Game.world.bricks, nor in a player's localBricks, nor in
\* Game.world.sounds, whatever registrations preceded the destroy.
C14_DestroyedEntityLeftItsCollection ==
    /\ \A b \in Bricks :
           brick[b].destroyed =>
               (b \notin Range(worldBricks) /\ \A p \in Players : b \notin Range(localBricks[p]))
    /\ \A s \in Sounds : sound[s].destroyed => s \notin Range(worldSounds)

\* No entry of the list occurs twice.
NoDuplicate(list) == \A i, j \in 1..Len(list) : list[i] = list[j] => i = j

\* The entries that stay keep their order and new entries come last.
OrderKept(old, new) ==
    LET stays(x) == x \in Range(old)
        kept(x) == x \in Range(new)
    IN  /\ SelectSeq(new, stays) = SelectSeq(old, kept)
        /\ \A i, j \in 1..Len(new) : (new[i] \notin Range(old) /\ new[j] \in Range(old)) => j < i

\* C15 as claimed: no entity occurs twice in Game.world.bricks, sounds,
\* teams, tools, bots or Game.players, and every operation keeps the entries
\* of each collection in insertion order.
C15_CollectionsAreOrderedSets ==
    [][ /\ NoDuplicate(worldBricks') /\ OrderKept(worldBricks, worldBricks')
        /\ NoDuplicate(worldSounds') /\ OrderKept(worldSounds, worldSounds')
        /\ NoDuplicate(game'.teams) /\ OrderKept(game.teams, game'.teams)
        /\ NoDuplicate(game'.tools) /\ OrderKept(game.tools, game'.tools)
        /\ NoDuplicate(game'.bots) /\ OrderKept(game.bots, game'.bots)
        /\ NoDuplicate(players') /\ OrderKept(players, players') ]_vars

\* C16: the packet of every brick mutation, destroy included, is addressed to
\* exactly the connection a local brick is bound to, and to exactly the
\* sessions of Game.players when the brick is bound to none.
C16_BrickPacketAddressing ==
    \A b \in Bricks :
        (ev.op \in {"Brick.set", "Brick.destroy"} /\ ev.who = b /\ ev.result = "ok") =>
            ev.pkts = {<<"Brick", b, ev.arg[1],
                         IF brick[b].socket # NoOne THEN {brick[b].socket} ELSE Range(players)>>}

\* A local brick was mutated while another session was in the game too.
C16_Witness ==
    \E b \in Bricks :
        /\ ev.op = "Brick.set" /\ ev.who = b /\ ev.result = "ok"
        /\ brick[b].socket # NoOne
        /\ Range(players) \ {brick[b].socket} # {}

\* C17: a setSpeech call by a player is delivered to exactly the sessions of
\* Game.players whose blockedUsers does not hold the speaker's userId when the
\* call is made; nothing of an earlier call's exclusion set is kept.
C17_SpeechReachesThoseNotBlocking ==
    \A p \in Players :
        (ev.op = "Player.setSpeech" /\ ev.who = p) =>
            ev.pkts = {<<"PlayerModification", p, "f", ev.arg[1],
                         { q \in Range(players) : userId(p) \notin player[q].blockedUsers }>>}

\* A call that one session of Game.players receives and another, blocking the
\* speaker, does not.
C17_Witness ==
    \E p \in Players, q \in Range(players) :
        /\ ev.op = "Player.setSpeech" /\ ev.who = p /\ p # q
        /\ userId(p) \in player[q].blockedUsers
        /\ p \in Range(players)
        /\ \E pk \in ev.pkts : pk[5] = {p}

\* C18: at every reachable state, each Tool is the toolEquipped of at most one
\* session.
C18_ToolEquippedByAtMostOneSession ==
    \A t \in Tools :
        Cardinality({ p \in Range(players) : player[p].toolEquipped = t }) <= 1

\* C19: for every list of bricks, deserialize(serialize(bricks)) returns as
\* many bricks in the same order, and each returned brick equals the original
\* in every field in which the original differs from a new Brick.
C19_RoundTrip ==
    ev.op = "deserialize" =>
        /\ Len(ev.result) = Len(ev.arg[1])
        /\ \A i \in DOMAIN ev.arg[1] :
               \A f \in Changed(ev.arg[1][i]) : ev.result[i][f] = ev.arg[1][i][f]

\* C20: the serialized record of a brick contains a field if and only if the
\* brick's value for that field differs from the default brick's value.
C20_RecordHoldsExactlyTheChangedFields ==
    ev.op = "serialize" =>
        \A i \in DOMAIN ev.arg[1] : DOMAIN ev.result[i] = Changed(ev.arg[1][i])

\* The brick lines of a file that are not line 1 or one of lines 3 to 7, in
\* file order.
BrickLinesOf(LINES) ==
    SelectSeq([ i \in DOMAIN LINES |-> IF i = 1 \/ i \in 3..7 THEN BlankLine ELSE LINES[i] ],
              LAMBDA l : l \in BrickLines)

\* C21: a file of the signature and one brick line gives exactly one Brick
\* with the position, scale and visibility of that line and no teams, tools
\* or spawns; in general the bricks returned are those of the brick lines
\* outside lines 1 and 3 to 7, in file order.
C21_OneBrickPerBrickLine ==
    (ev.op = "loadBrk" /\ ev.arg[1][1] = Signature) =>
        LET expected == BrickLinesOf(ev.arg[1])
        IN  /\ ev.result.status = "returned"
            /\ Len(ev.result.bricks) = Len(expected)
            /\ \A i \in DOMAIN expected :
                   /\ ev.result.bricks[i].position = LoadedBrick(expected[i]).position
                   /\ ev.result.bricks[i].scale = LoadedBrick(expected[i]).scale
                   /\ ev.result.bricks[i].visibility = LoadedBrick(expected[i]).visibility
            /\ (Len(ev.arg[1]) = 2 /\ ev.arg[1][2] \in BrickLines) =>
                   /\ ev.result.teams = <<>>
                   /\ ev.result.tools = <<>>
                   /\ ev.result.spawns = <<>>

\* C22: when the first line of the file is not the signature the loader stops
\* at line 1: no brick, team or tool is made, no later line is read and
\* nothing is returned.
C22_BadHeaderAborts ==
    (ev.op = "loadBrk" /\ ev.arg[1][1] # Signature) =>
        /\ ev.result.status = "exit"
        /\ ev.result.totalLines = 1
        /\ ev.result.bricks = <<>>
        /\ ev.result.teams = <<>>
        /\ ev.result.tools = <<>>
        /\ ev.result.spawns = <<>>

\* A file without the signature whose later lines hold a brick line.
C22_Witness ==
    /\ ev.op = "loadBrk"
    /\ ev.arg[1][1] # Signature
    /\ \E i \in 2..Len(ev.arg[1]) : ev.arg[1][i] \in BrickLines
    /\ ev.result.status = "exit"

\* C23: once a hook is bound, whatever signals arrive and whether or not
\* Game.shutdown is called, the hook is invoked exactly once, and the process
\* has not exited before the hook was invoked.
C23_HookInvokedExactlyOnce ==
    game.closing.bound =>
        /\ game.closing.invoked <= 1
        /\ game.closing.exited => game.closing.invoked = 1

\* The bytes that have arrived: all but those of the reads still to come.
Arrived ==
    LET RECURSIVE Joined(_)
        Joined(reads) == IF reads = <<>> THEN <<>> ELSE Head(reads) \o Joined(Tail(reads))
        all == Wire(ev.arg[1])
    IN  SubSeq(all, 1, Len(all) - Len(Joined(ev.arg[2])))

\* C24: however the bytes of N valid frames are split into reads, the
\* connection dispatches exactly those N frames, each once and in order, and
\* keeps the bytes of an incomplete frame for the next read.
C24_FramesReassembled ==
    ev.op \in {"stream", "data"} =>
        /\ \E n \in 0..Len(ev.arg[1]) : ev.result.frames = SubSeq(ev.arg[1], 1, n)
        /\ Wire(ev.result.frames) \o ev.result.recieve = Arrived
        /\ ev.arg[2] = <<>> => (ev.result.frames = ev.arg[1] /\ ev.result.recieve = <<>>)

\* A read has completed one frame and left the first bytes of the next in the
\* buffer.
C24_Witness ==
    /\ ev.op = "data"
    /\ ev.arg[2] # <<>>
    /\ Len(ev.result.frames) = 1
    /\ ev.result.recieve # <<>>
    /\ ev.result.remaining > 0

\* The objects in use: constructed, and not destroyed.
Live(e) ==
    /\ Constructed(e)
    /\ e \in Bricks => ~brick[e].destroyed
    /\ e \in Sounds => ~sound[e].destroyed
    /\ e \in Players => ~player[e].destroyed

\* C25: two live entities of one kind have distinct netIds, and a netId that
\* a constructor assigns is greater than every netId assigned to the kind
\* before, so none is handed out twice.
C25_NetIdsUniqueAndIncreasing ==
    /\ [](\A e, f \in Bricks \cup Sounds \cup Players :
            (e # f /\ KindOf(e) = KindOf(f) /\ Live(e) /\ Live(f)) =>
                /\ game.ids.netId[e] # {}
                /\ game.ids.netId[e] \cap game.ids.netId[f] = {})
    /\ [][\A e \in Bricks \cup Sounds \cup Players :
            (game.ids.netId[e] # game.ids.netId'[e] /\ game.ids.netId'[e] # {}) =>
                \A n \in game.ids.netId'[e], was \in game.ids.issued :
                    was[1] = KindOf(e) => n > was[2]]_vars

\* A clone was constructed after another brick had been constructed and
\* destroyed.
C25_Witness ==
    \E b, o \in Bricks :
        /\ ev.op = "new Brick" /\ ev.who = b /\ ev.arg = << "clone" >>
        /\ brick[o].destroyed
        /\ game.ids.netId[b] = { 2 }

\* The tool operation just made was on a tool not in the expected relation
\* to the player.
Misapplied ==
    \/ ev'.op = "Player.addTool" /\ IndexOf(player[ev'.who].inventory, ev'.arg[1]) # -1
    \/ ev'.op = "Player.removeTool" /\ IndexOf(player[ev'.who].inventory, ev'.arg[1]) = -1
    \/ ev'.op = "Player.unequipTool" /\ player[ev'.who].toolEquipped # ev'.arg[1]

\* C26: addTool of a tool already in the inventory, removeTool of a tool not
\* in it and unequipTool of a tool not equipped are rejected, send no packet
\* and leave inventory and toolEquipped as they were.
C26_MisappliedToolCallRejected ==
    [][Misapplied =>
        /\ ev'.result = "rejected"
        /\ ev'.pkts = {}
        /\ player'[ev'.who].inventory = player[ev'.who].inventory
        /\ player'[ev'.who].toolEquipped = player[ev'.who].toolEquipped]_vars

\* C27: setHealth(h) with h above the player's maxHealth leaves maxHealth = h
\* and health = h, and in every reachable state health is at most maxHealth.
C27_HealthWithinMaxHealth ==
    /\ [](\A p \in Players : player[p].health <= player[p].maxHealth)
    /\ [][(ev'.op = "Player.setHealth" /\ ev'.arg[1] > player[ev'.who].maxHealth) =>
            /\ player'[ev'.who].maxHealth = ev'.arg[1]
            /\ player'[ev'.who].health = ev'.arg[1]]_vars

\* C28: on a live brick the scan timer is scheduled exactly when the brick
\* has a "touching" or "touchingEnded" subscriber, and never more than one
\* scan timer is scheduled.
C28_ScanTimerIffSubscribed ==
    \A b \in Bricks :
        (brick[b].made /\ ~brick[b].destroyed) =>
            /\ brick[b].hitTimers > 0 <=> brick[b].touchL + brick[b].endedL > 0
            /\ brick[b].hitTimers <= 1

\* C29: after every scan of a brick, global or local, the brick's touching-set
\* holds no destroyed actor.
C29_NoDestroyedActorAfterScan ==
    \A b \in Bricks :
        (ev.op = "scan" /\ ev.who = b) =>
            \A p \in brick[b].playersTouching : ~player[p].destroyed

\* The overlap rule as the claim words it, for boxes given in tenths of a
\* unit: on each axis the distance between the brick's centre and the actor's
\* box centre is less than the brick's half-extent plus the actor's extent
\* plus 0.4.
ClaimedOverlap(bp, bs, pp, ps) ==
    LET brickCentre(i) == (10 * bp[i]) + (5 * bs[i])
        actorExtent(i) == IF i = 3 THEN 25 * ps[3] ELSE 10 * ps[i]
        actorCentre(i) == IF i = 3 THEN (10 * pp[3]) + actorExtent(3) ELSE 10 * pp[i]
    IN  \A i \in 1..3 :
            Abs(brickCentre(i) - actorCentre(i)) < (5 * bs[i]) + actorExtent(i) + 40

\* C30: in a scan an actor is counted as touching exactly when it is a
\* candidate (the bound player of a local brick, any of Game.players for a
\* global one), is alive, and overlaps the brick by the rule above.
C30_TouchingRule ==
    /\ \A b \in Bricks, p \in Players :
           (ScanOf(b) /\ Len(players) > 0) =>
               (Emitted(b, "touching", p) <=>
                    /\ p \in (IF brick[b].socket # NoOne THEN { brick[b].socket } ELSE Range(players))
                    /\ player[p].alive
                    /\ ClaimedOverlap(Tenths(brick[b].position), Tenths(brick[b].scale),
                                      Tenths(player[p].position), Tenths(player[p].scale)))
    /\ ev.op = "hitTest" =>
           (ev.result <=> ClaimedOverlap(ev.arg[1], ev.arg[2], ev.arg[3], ev.arg[4]))

\* A scan of a local brick reports its bound player while another player is
\* in the game.
C30_Witness ==
    \E b \in Bricks, p \in Players :
        /\ ScanOf(b)
        /\ brick[b].socket = p
        /\ Emitted(b, "touching", p)
        /\ Range(players) \ {p} # {}

LoadOf == ev.op \in { "Game.loadBrk", "Game.parseBrk" }

\* C31: the loader is handed only files inside the map directory whose name
\* ends in .brk; any other location is rejected before the map is cleared
\* or a file is read.
C31_LoaderGetsOnlyMapFiles ==
    LoadOf =>
        \A brkFile \in ev.result.handed :
            /\ StartsWithSegments(brkFile, MapDirectory)
            /\ Len(brkFile) > Len(MapDirectory)
            /\ EndsWithBrk(brkFile)

\* C32: a clicked() callback gets secure = true exactly when the Euclidean
\* distance between the brick and the clicking player is at most the brick's
\* clickDistance (compared here by their squares).
C32_SecureIffWithinClickDistance ==
    ev.op = "clicked" =>
        LET d(i) == ev.arg[2][i] - ev.arg[3][i]
        IN  ev.result <=>
                ((d(1) * d(1)) + (d(2) * d(2)) + (d(3) * d(3)) <= ev.arg[4] * ev.arg[4])

\* C39: disconnecting one clicked() handle removes exactly its subscription,
\* and the brick stays clickable while another subscription remains.
C39_ClickableWhileSubscribed ==
    \A b \in Bricks :
        (ev.op = "clicked.disconnect" /\ ev.who = b) =>
            /\ brick[b].clickL = (IF ev.arg[1] THEN ev.arg[2] - 1 ELSE ev.arg[2])
            /\ brick[b].clickL > 0 => brick[b].clickable

\* The players of a list other than p, in the list's order.
Others(list, p) == SelectSeq(list, LAMBDA q : q # p)

\* C33: a call of Game._playerLeft(p) leaves every other player in
\* Game.players, in the same order.
C33_PlayerLeftRemovesOnlyThatPlayer ==
    [][ \A p \in Players :
            (ev'.op = "_playerLeft" /\ ev'.who = p) => Others(players', p) = Others(players, p) ]_vars

\* How often Game has emitted initialSpawn for a player whose log this is.
InitialSpawns(log) == Len(SelectSeq(log, LAMBDA step : step = "Game.initialSpawn"))

\* C34: once playerLeave has been emitted for a player, the rest of its join
\* sequence emits no initialSpawn for it, registers no listener or timer on
\* it and changes none of its state.
C34_JoinStopsAfterLeave ==
    [][ \A p \in Players :
            (leaveEmits[p] > 0 /\ ev'.op = "_joined" /\ ev'.who = p) =>
                /\ InitialSpawns(player'[p].joinLog) = InitialSpawns(player[p].joinLog)
                /\ player'[p].listeners = player[p].listeners
                /\ { t \in timers' : t[1] = p } = StepsOf(p)
                /\ \A f \in { "position", "alive", "health", "team", "inventory" } :
                       player'[p][f] = player[p][f] ]_vars

\* C35: a player's equipped tool is null or a tool of its inventory, and the
\* inventory holds no tool twice.
C35_EquippedToolIsInInventory ==
    \A p \in Players :
        /\ player[p].toolEquipped = NoOne \/ player[p].toolEquipped \in Range(player[p].inventory)
        /\ NoDuplicate(player[p].inventory)

\* C36: every session has received the creation data of each global brick
\* at most once, and at least once when it has joined and not left.
C36_GlobalBrickCreatedOncePerSession ==
    \A p \in Players, b \in Range(worldBricks) :
        /\ player[p].created[b] <= 1
        /\ (player[p].joinPc = "joined" /\ ~player[p].destroyed) => player[p].created[b] >= 1

\* C37: once the avatar load of a connected player has finished, every
\* avatarLoaded() promise is settled: resolved after a successful load,
\* rejected after a failed one, whenever it was asked for.
C37_AvatarPromisesSettle ==
    \A p \in Players :
        (~player[p].destroyed /\ player[p].avatar \in { "loaded", "failed" }) =>
            /\ player[p].avatarPromises.pending = 0
            /\ player[p].avatar = "loaded" => player[p].avatarPromises.rejected = 0
            /\ player[p].avatar = "failed" => player[p].avatarPromises.resolved = 0

\* C38: a Game.loadBrk that fails leaves Game.world.bricks and
\* Game.world.spawns as they were and broadcasts no ClearMap; one that
\* succeeds makes them the bricks and spawns of the file and leaves the teams
\* and tools alone.
C38_LoadBrkAllOrNothing ==
    [][ ev'.op = "Game.loadBrk" =>
            /\ ev'.result.status = "threw" =>
                   /\ worldBricks' = worldBricks
                   /\ game'.spawns = game.spawns
                   /\ \A pkt \in ev'.pkts : pkt[1] # "ClearMap"
            /\ ev'.result.status = "returned" =>
                   /\ worldBricks' = FileBricks(Len(ev'.result.data.bricks))
                   /\ game'.spawns = [ i \in DOMAIN ev'.result.data.spawns |->
                                         FileBrickIds[ev'.result.data.spawns[i]] ]
                   /\ game'.teams = game.teams /\ game'.tools = game.tools ]_vars

\* C40: every brick in a player's localBricks is bound to that player's
\* connection and is not in Game.world.bricks.
C40_LocalBricksAreBoundToTheirPlayer ==
    \A p \in Players :
        \A b \in Range(localBricks[p]) :
            brick[b].socket = p /\ b \notin Range(worldBricks)

====
